---------------------------- MODULE Spec2Model ----------------------------
(***************************************************************************)
(* Genealogical relationship engine of the family-tree application:        *)
(* RelationshipCalculator (src/src/lib/relationships/calculator.ts) over   *)
(* a snapshot of the two maps `individuals` and `families`.                *)
(*                                                                         *)
(* Person ids and family ids are small naturals; NoId stands for an        *)
(* absent optional reference (undefined / null).  A JavaScript Map is a    *)
(* sequence of entries in insertion order, which is its iteration order.   *)
(***************************************************************************)
EXTENDS Integers, Sequences, FiniteSets, TLC

VARIABLES individuals, families, pc, fromId, toId, result,
          queue, ancestors, fromAncestors, visits, iterations,
          stack, nestedCalls, visited, pathResult, chainLabel,
          rendered, clock, log, isSupabaseEnabled, isSaving, saveError, inflight, done

vars == <<individuals, families, pc, fromId, toId, result,
          queue, ancestors, fromAncestors, visits, iterations,
          stack, nestedCalls, visited, pathResult, chainLabel,
          rendered, clock, log, isSupabaseEnabled, isSaving, saveError, inflight, done>>

\* the call stack of a query taken call by call, and the state of a path search
callVars == <<stack, nestedCalls>>

pathVars == <<visited, pathResult>>

\* the state of the provider besides the graph, and what its callbacks returned
\* rendered is the snapshot the callbacks of the last render close over, clock
\* the last value Date.now() gave, log the mutation calls made so far, inflight
\* the mutations waiting for a persistence call, done the completed ones
mutationVars == <<rendered, clock, log, isSupabaseEnabled, isSaving, saveError,
                  inflight, done>>

ctxVars == <<chainLabel, mutationVars>>

NoId == 0

\* `null` as returned by the check* helpers and findNearestCommonAncestor
Null == [isNull |-> TRUE]

\* The calculator object: the two maps it was constructed from
Calculator(ind, fam) == [individuals |-> ind, families |-> fam]

HasIndividual(this, id) == id \in DOMAIN this.individuals

HasFamily(this, id) == id \in DOMAIN this.families

\* toPerson?.sex === 'M' ? m : toPerson?.sex === 'F' ? f : u
Gendered(this, id, m, f, u) ==
    IF ~HasIndividual(this, id) THEN u
    ELSE IF this.individuals[id].sex = "M" THEN m
    ELSE IF this.individuals[id].sex = "F" THEN f
    ELSE u

\* family.husband === id ? family.wife : family.wife === id ? family.husband : null
OtherSpouse(family, id) ==
    IF family.husband = id THEN family.wife
    ELSE IF family.wife = id THEN family.husband
    ELSE NoId

RECURSIVE Repeat(_, _)
Repeat(s, n) == IF n <= 0 THEN "" ELSE s \o Repeat(s, n - 1)

-----------------------------------------------------------------------------
(* checkSpouseRelationship *)

SpouseResult(this, from, to) ==
    [fromId |-> from, toId |-> to,
     path |-> <<[personId |-> to, relation |-> "spouse", direction |-> "lateral"]>>,
     relationship |-> [type |-> "spouse"],
     label |-> Gendered(this, to, "Husband", "Wife", "Spouse")]

\* a missing unit ends the scan (`return null` for `continue`)
RECURSIVE SpouseScanStopsAtMissing(_, _, _, _)
SpouseScanStopsAtMissing(this, from, to, i) ==
    LET fas == this.individuals[from].familyAsSpouse IN
    IF i > Len(fas) THEN Null
    ELSE IF ~HasFamily(this, fas[i]) THEN Null
    ELSE IF OtherSpouse(this.families[fas[i]], from) = to THEN SpouseResult(this, from, to)
    ELSE SpouseScanStopsAtMissing(this, from, to, i + 1)

\* the opposing slot chosen by the sex of `from` instead of by its slot
RECURSIVE SpouseScanBySex(_, _, _, _)
SpouseScanBySex(this, from, to, i) ==
    LET fas == this.individuals[from].familyAsSpouse IN
    IF i > Len(fas) THEN Null
    ELSE IF ~HasFamily(this, fas[i]) THEN SpouseScanBySex(this, from, to, i + 1)
    ELSE IF (IF this.individuals[from].sex = "M" THEN this.families[fas[i]].wife
             ELSE this.families[fas[i]].husband) = to
    THEN SpouseResult(this, from, to)
    ELSE SpouseScanBySex(this, from, to, i + 1)

RECURSIVE SpouseScan(_, _, _, _)
SpouseScan(this, from, to, i) ==
    LET fas == this.individuals[from].familyAsSpouse IN
    IF i > Len(fas) THEN Null
    ELSE IF ~HasFamily(this, fas[i]) THEN SpouseScan(this, from, to, i + 1)
    ELSE IF OtherSpouse(this.families[fas[i]], from) = to THEN SpouseResult(this, from, to)
    ELSE SpouseScan(this, from, to, i + 1)

checkSpouseRelationship(this, from, to) ==
    IF ~HasIndividual(this, from) THEN Null
    ELSE SpouseScan(this, from, to, 1)

-----------------------------------------------------------------------------
(* findAncestorsWithDepth: the Map is a sequence of [id, depth] entries *)

MapHas(m, id) == \E k \in 1..Len(m) : m[k].id = id

MapGet(m, id) == m[CHOOSE k \in 1..Len(m) : m[k].id = id].depth

MapKeys(m) == {m[k].id : k \in 1..Len(m)}

\* the walk without its `if (ancestors.has(id)) continue`
WalkStepRevisits(this, q, anc) ==
    LET item == Head(q)
        rest == Tail(q)
        anc2 == Append(anc, item)
    IN  IF ~HasIndividual(this, item.id) \/ this.individuals[item.id].familyAsChild = NoId
        THEN [queue |-> rest, ancestors |-> anc2]
        ELSE IF ~HasFamily(this, this.individuals[item.id].familyAsChild)
        THEN [queue |-> rest, ancestors |-> anc2]
        ELSE LET family == this.families[this.individuals[item.id].familyAsChild]
                 h == IF family.husband # NoId
                      THEN <<[id |-> family.husband, depth |-> item.depth + 1]>> ELSE <<>>
                 w == IF family.wife # NoId
                      THEN <<[id |-> family.wife, depth |-> item.depth + 1]>> ELSE <<>>
             IN [queue |-> rest \o h \o w, ancestors |-> anc2]

\* the queue used as a stack (`pop` for `shift`)
WalkStepLifo(this, q, anc) ==
    LET item == q[Len(q)]
        rest == SubSeq(q, 1, Len(q) - 1)
    IN  IF MapHas(anc, item.id) THEN [queue |-> rest, ancestors |-> anc]
        ELSE LET anc2 == Append(anc, item) IN
             IF ~HasIndividual(this, item.id) \/ this.individuals[item.id].familyAsChild = NoId
             THEN [queue |-> rest, ancestors |-> anc2]
             ELSE IF ~HasFamily(this, this.individuals[item.id].familyAsChild)
             THEN [queue |-> rest, ancestors |-> anc2]
             ELSE LET family == this.families[this.individuals[item.id].familyAsChild]
                      h == IF family.husband # NoId
                           THEN <<[id |-> family.husband, depth |-> item.depth + 1]>> ELSE <<>>
                      w == IF family.wife # NoId
                           THEN <<[id |-> family.wife, depth |-> item.depth + 1]>> ELSE <<>>
                  IN [queue |-> rest \o h \o w, ancestors |-> anc2]

\* One iteration of the while loop: shift the queue, skip a visited id,
\* otherwise record it and push the husband and wife of its parent family.
WalkStep(this, q, anc) ==
    LET item == Head(q)
        rest == Tail(q)
    IN  IF MapHas(anc, item.id) THEN [queue |-> rest, ancestors |-> anc]
        ELSE LET anc2 == Append(anc, item) IN
             IF ~HasIndividual(this, item.id) \/ this.individuals[item.id].familyAsChild = NoId
             THEN [queue |-> rest, ancestors |-> anc2]
             ELSE IF ~HasFamily(this, this.individuals[item.id].familyAsChild)
             THEN [queue |-> rest, ancestors |-> anc2]
             ELSE LET family == this.families[this.individuals[item.id].familyAsChild]
                      h == IF family.husband # NoId
                           THEN <<[id |-> family.husband, depth |-> item.depth + 1]>> ELSE <<>>
                      w == IF family.wife # NoId
                           THEN <<[id |-> family.wife, depth |-> item.depth + 1]>> ELSE <<>>
                  IN [queue |-> rest \o h \o w, ancestors |-> anc2]

RECURSIVE WalkLoop(_, _, _)
WalkLoop(this, q, anc) ==
    IF q = <<>> THEN anc
    ELSE LET s == WalkStep(this, q, anc) IN WalkLoop(this, s.queue, s.ancestors)

findAncestorsWithDepth(this, personId) ==
    WalkLoop(this, <<[id |-> personId, depth |-> 0]>>, <<>>)

-----------------------------------------------------------------------------
(* findNearestCommonAncestor: first entry of fromAncestors, in iteration    *)
(* order, whose total depth is strictly below every earlier one.            *)

\* `<=` for `<`: the last of several nearest entries wins
RECURSIVE NearestScanLastWins(_, _, _, _, _)
NearestScanLastWins(fromAnc, toAnc, k, nearest, minTotalDepth) ==
    IF k > Len(fromAnc) THEN nearest
    ELSE LET e == fromAnc[k] IN
         IF MapHas(toAnc, e.id)
         THEN LET toDepth == MapGet(toAnc, e.id)
                  totalDepth == e.depth + toDepth
              IN IF nearest = Null \/ totalDepth <= minTotalDepth
                 THEN NearestScanLastWins(fromAnc, toAnc, k + 1,
                                          [ancestorId |-> e.id, fromDepth |-> e.depth,
                                           toDepth |-> toDepth],
                                          totalDepth)
                 ELSE NearestScanLastWins(fromAnc, toAnc, k + 1, nearest, minTotalDepth)
         ELSE NearestScanLastWins(fromAnc, toAnc, k + 1, nearest, minTotalDepth)

\* a missing entry of toAncestors read as depth 0
RECURSIVE NearestScanDefaultZero(_, _, _, _, _)
NearestScanDefaultZero(fromAnc, toAnc, k, nearest, minTotalDepth) ==
    IF k > Len(fromAnc) THEN nearest
    ELSE LET e == fromAnc[k]
             toDepth == IF MapHas(toAnc, e.id) THEN MapGet(toAnc, e.id) ELSE 0
             totalDepth == e.depth + toDepth
         IN IF nearest = Null \/ totalDepth < minTotalDepth
            THEN NearestScanDefaultZero(fromAnc, toAnc, k + 1,
                                        [ancestorId |-> e.id, fromDepth |-> e.depth,
                                         toDepth |-> toDepth],
                                        totalDepth)
            ELSE NearestScanDefaultZero(fromAnc, toAnc, k + 1, nearest, minTotalDepth)

\* the first shared id kept, later ones not compared
RECURSIVE NearestScanFirstShared(_, _, _, _, _)
NearestScanFirstShared(fromAnc, toAnc, k, nearest, minTotalDepth) ==
    IF k > Len(fromAnc) THEN nearest
    ELSE LET e == fromAnc[k] IN
         IF MapHas(toAnc, e.id)
         THEN [ancestorId |-> e.id, fromDepth |-> e.depth, toDepth |-> MapGet(toAnc, e.id)]
         ELSE NearestScanFirstShared(fromAnc, toAnc, k + 1, nearest, minTotalDepth)

RECURSIVE NearestScan(_, _, _, _, _)
NearestScan(fromAnc, toAnc, k, nearest, minTotalDepth) ==
    IF k > Len(fromAnc) THEN nearest
    ELSE LET e == fromAnc[k] IN
         IF MapHas(toAnc, e.id)
         THEN LET toDepth == MapGet(toAnc, e.id)
                  totalDepth == e.depth + toDepth
              IN IF nearest = Null \/ totalDepth < minTotalDepth
                 THEN NearestScan(fromAnc, toAnc, k + 1,
                                  [ancestorId |-> e.id, fromDepth |-> e.depth, toDepth |-> toDepth],
                                  totalDepth)
                 ELSE NearestScan(fromAnc, toAnc, k + 1, nearest, minTotalDepth)
         ELSE NearestScan(fromAnc, toAnc, k + 1, nearest, minTotalDepth)

findNearestCommonAncestor(fromAnc, toAnc) ==
    NearestScan(fromAnc, toAnc, 1, Null, 0)

-----------------------------------------------------------------------------
(* calculateBloodRelationship and the result constructors *)

getOrdinal(n) ==
    LET ordinals == <<"1st", "2nd", "3rd", "4th", "5th", "6th", "7th", "8th", "9th", "10th">>
    IN  IF n >= 1 /\ n <= Len(ordinals) THEN ordinals[n] ELSE ToString(n) \o "th"

createAncestorRelation(this, from, to, generations) ==
    [fromId |-> from, toId |-> to, path |-> <<>>,
     relationship |-> [type |-> "parent", generations |-> generations, lineage |-> "direct"],
     label |-> IF generations = 1 THEN Gendered(this, to, "Father", "Mother", "Parent")
               ELSE IF generations = 2
               THEN Gendered(this, to, "Grandfather", "Grandmother", "Grandparent")
               ELSE Repeat("Great-", generations - 2)
                    \o Gendered(this, to, "Grandfather", "Grandmother", "Grandparent")]

createDescendantRelation(this, from, to, generations) ==
    [fromId |-> from, toId |-> to, path |-> <<>>,
     relationship |-> [type |-> "child", generations |-> generations, lineage |-> "direct"],
     label |-> IF generations = 1 THEN Gendered(this, to, "Son", "Daughter", "Child")
               ELSE IF generations = 2
               THEN Gendered(this, to, "Grandson", "Granddaughter", "Grandchild")
               ELSE Repeat("Great-", generations - 2)
                    \o Gendered(this, to, "Grandson", "Granddaughter", "Grandchild")]

createCousinRelation(from, to, degree, removed) ==
    [fromId |-> from, toId |-> to, path |-> <<>>,
     relationship |-> [type |-> "cousin", degree |-> degree, removed |-> removed],
     label |-> getOrdinal(degree) \o " Cousin"
               \o (IF removed > 0 THEN " " \o ToString(removed) \o "x Removed" ELSE "")]

checkHalfSibling(this, personId1, personId2) ==
    IF \/ ~HasIndividual(this, personId1) \/ ~HasIndividual(this, personId2)
       \/ this.individuals[personId1].familyAsChild = NoId
       \/ this.individuals[personId2].familyAsChild = NoId
    THEN FALSE
    ELSE IF this.individuals[personId1].familyAsChild # this.individuals[personId2].familyAsChild
    THEN TRUE
    ELSE LET fid == this.individuals[personId1].familyAsChild IN
         \/ ~HasFamily(this, fid)
         \/ this.families[fid].husband = NoId
         \/ this.families[fid].wife = NoId

\* Math.max written for Math.min
MinAsMax(a, b) == IF a < b THEN b ELSE a

Min(a, b) == IF a < b THEN a ELSE b

Abs(a) == IF a < 0 THEN -a ELSE a

calculateBloodRelationshipGapAtThree(this, from, to, commonAncestor) ==
    LET fromDepth == commonAncestor.fromDepth
        toDepth == commonAncestor.toDepth
        Plain(rel, lbl) ==
            [fromId |-> from, toId |-> to, path |-> <<>>, relationship |-> rel, label |-> lbl]
    IN  IF toDepth = 0 /\ fromDepth > 0 THEN createAncestorRelation(this, from, to, fromDepth)
        ELSE IF fromDepth = 0 /\ toDepth > 0 THEN createDescendantRelation(this, from, to, toDepth)
        ELSE IF fromDepth = 1 /\ toDepth = 1
        THEN LET isHalf == checkHalfSibling(this, from, to) IN
             Plain([type |-> "sibling", half |-> isHalf],
                   IF isHalf THEN Gendered(this, to, "Half-Brother", "Half-Sister", "Half-Sibling")
                   ELSE Gendered(this, to, "Brother", "Sister", "Sibling"))
        ELSE IF fromDepth = 2 /\ toDepth = 1
        THEN Plain([type |-> "uncle-aunt", great |-> 0],
                   Gendered(this, to, "Uncle", "Aunt", "Uncle/Aunt"))
        ELSE IF fromDepth > 3 /\ toDepth = 1
        THEN Plain([type |-> "uncle-aunt", great |-> fromDepth - 2],
                   Repeat("Great-", fromDepth - 2)
                   \o Gendered(this, to, "Uncle", "Aunt", "Uncle/Aunt"))
        ELSE IF fromDepth = 1 /\ toDepth = 2
        THEN Plain([type |-> "nephew-niece", great |-> 0],
                   Gendered(this, to, "Nephew", "Niece", "Nephew/Niece"))
        ELSE IF fromDepth = 1 /\ toDepth > 2
        THEN Plain([type |-> "nephew-niece", great |-> toDepth - 2],
                   Repeat("Great-", toDepth - 2)
                   \o Gendered(this, to, "Nephew", "Niece", "Nephew/Niece"))
        ELSE IF fromDepth >= 2 /\ toDepth >= 2
        THEN createCousinRelation(from, to, Min(fromDepth, toDepth) - 1, Abs(fromDepth - toDepth))
        ELSE Plain([type |-> "unknown"], "Distant Relative")

calculateBloodRelationship(this, from, to, commonAncestor) ==
    LET fromDepth == commonAncestor.fromDepth
        toDepth == commonAncestor.toDepth
        Plain(rel, lbl) ==
            [fromId |-> from, toId |-> to, path |-> <<>>, relationship |-> rel, label |-> lbl]
    IN  IF toDepth = 0 /\ fromDepth > 0 THEN createAncestorRelation(this, from, to, fromDepth)
        ELSE IF fromDepth = 0 /\ toDepth > 0 THEN createDescendantRelation(this, from, to, toDepth)
        ELSE IF fromDepth = 1 /\ toDepth = 1
        THEN LET isHalf == checkHalfSibling(this, from, to) IN
             Plain([type |-> "sibling", half |-> isHalf],
                   IF isHalf THEN Gendered(this, to, "Half-Brother", "Half-Sister", "Half-Sibling")
                   ELSE Gendered(this, to, "Brother", "Sister", "Sibling"))
        ELSE IF fromDepth = 2 /\ toDepth = 1
        THEN Plain([type |-> "uncle-aunt", great |-> 0],
                   Gendered(this, to, "Uncle", "Aunt", "Uncle/Aunt"))
        ELSE IF fromDepth > 2 /\ toDepth = 1
        THEN Plain([type |-> "uncle-aunt", great |-> fromDepth - 2],
                   Repeat("Great-", fromDepth - 2)
                   \o Gendered(this, to, "Uncle", "Aunt", "Uncle/Aunt"))
        ELSE IF fromDepth = 1 /\ toDepth = 2
        THEN Plain([type |-> "nephew-niece", great |-> 0],
                   Gendered(this, to, "Nephew", "Niece", "Nephew/Niece"))
        ELSE IF fromDepth = 1 /\ toDepth > 2
        THEN Plain([type |-> "nephew-niece", great |-> toDepth - 2],
                   Repeat("Great-", toDepth - 2)
                   \o Gendered(this, to, "Nephew", "Niece", "Nephew/Niece"))
        ELSE IF fromDepth >= 2 /\ toDepth >= 2
        THEN createCousinRelation(from, to, Min(fromDepth, toDepth) - 1, Abs(fromDepth - toDepth))
        ELSE Plain([type |-> "unknown"], "Distant Relative")

-----------------------------------------------------------------------------
(* checkInLawRelationship *)

InLawResult(this, from, to, base, m, f, u) ==
    [fromId |-> from, toId |-> to, path |-> <<>>,
     relationship |-> [type |-> "in-law", baseRelation |-> base],
     label |-> Gendered(this, to, m, f, u)]

ParentBase == [type |-> "parent", generations |-> 1, lineage |-> "direct"]

SiblingBase == [type |-> "sibling", half |-> FALSE]

ChildBase == [type |-> "child", generations |-> 1, lineage |-> "direct"]

SeqHas(s, x) == \E k \in 1..Len(s) : s[k] = x

\* First loop (lines 317-362): per spouse unit, the spouse's parent and then
\* the spouse's sibling, before the next unit is looked at.
RECURSIVE SpouseSideScan(_, _, _, _)
SpouseSideScan(this, from, to, i) ==
    LET fas == this.individuals[from].familyAsSpouse
        next == SpouseSideScan(this, from, to, i + 1)
    IN  IF i > Len(fas) THEN Null
        ELSE IF ~HasFamily(this, fas[i]) THEN next
        ELSE LET spouseId == OtherSpouse(this.families[fas[i]], from) IN
             IF spouseId = NoId THEN next
             ELSE IF ~HasIndividual(this, spouseId) \/ this.individuals[spouseId].familyAsChild = NoId
             THEN next
             ELSE IF ~HasFamily(this, this.individuals[spouseId].familyAsChild) THEN next
             ELSE LET spouseParentFamily == this.families[this.individuals[spouseId].familyAsChild] IN
                  IF ~HasIndividual(this, to) THEN next
                  ELSE IF spouseParentFamily.husband = to \/ spouseParentFamily.wife = to
                  THEN InLawResult(this, from, to, ParentBase,
                                   "Father-in-law", "Mother-in-law", "Parent-in-law")
                  ELSE IF SeqHas(spouseParentFamily.children, to) /\ to # spouseId
                  THEN InLawResult(this, from, to, SiblingBase,
                                   "Brother-in-law", "Sister-in-law", "Sibling-in-law")
                  ELSE next

\* personId has a unit in familyAsSpouse whose opposing slot is `to`
HasSpouseUnitWith(this, personId, to) ==
    /\ HasIndividual(this, personId)
    /\ \E k \in 1..Len(this.individuals[personId].familyAsSpouse) :
          LET fid == this.individuals[personId].familyAsSpouse[k] IN
          /\ HasFamily(this, fid)
          /\ OtherSpouse(this.families[fid], personId) = to

\* Second loop (lines 365-393): a sibling's spouse
SiblingSpouseMatch(this, from, to) ==
    LET fac == this.individuals[from].familyAsChild IN
    /\ fac # NoId
    /\ HasFamily(this, fac)
    /\ \E k \in 1..Len(this.families[fac].children) :
          LET siblingId == this.families[fac].children[k] IN
          /\ siblingId # from
          /\ HasSpouseUnitWith(this, siblingId, to)

\* Third loop (lines 396-424): a child's spouse
ChildSpouseMatch(this, from, to) ==
    \E i \in 1..Len(this.individuals[from].familyAsSpouse) :
        LET fid == this.individuals[from].familyAsSpouse[i] IN
        /\ HasFamily(this, fid)
        /\ \E k \in 1..Len(this.families[fid].children) :
              HasSpouseUnitWith(this, this.families[fid].children[k], to)

checkInLawRelationship(this, from, to) ==
    IF ~HasIndividual(this, from) THEN Null
    ELSE LET first == SpouseSideScan(this, from, to, 1) IN
         IF first # Null THEN first
         ELSE IF SiblingSpouseMatch(this, from, to)
         THEN InLawResult(this, from, to, SiblingBase,
                          "Brother-in-law", "Sister-in-law", "Sibling-in-law")
         ELSE IF ChildSpouseMatch(this, from, to)
         THEN InLawResult(this, from, to, ChildBase, "Son-in-law", "Daughter-in-law", "Child-in-law")
         ELSE Null

-----------------------------------------------------------------------------
(* findRelationship and checkSpouseBloodRelatives *)

UnknownResult(from, to) ==
    [fromId |-> from, toId |-> to, path |-> <<>>,
     relationship |-> [type |-> "unknown"], label |-> "Unknown Relation"]

SelfResult(from, to) ==
    [fromId |-> from, toId |-> to, path |-> <<>>,
     relationship |-> [type |-> "self"], label |-> "Self"]

RECURSIVE findRelationship(_, _, _, _)

RECURSIVE SpouseRelativeScan(_, _, _, _)
SpouseRelativeScan(this, from, to, i) ==
    LET fas == this.individuals[from].familyAsSpouse IN
    IF i > Len(fas) THEN Null
    ELSE IF ~HasFamily(this, fas[i]) THEN SpouseRelativeScan(this, from, to, i + 1)
    ELSE LET spouseId == OtherSpouse(this.families[fas[i]], from) IN
         IF spouseId = NoId THEN SpouseRelativeScan(this, from, to, i + 1)
         ELSE LET spouseRelation == findRelationship(this, spouseId, to, TRUE) IN
              IF /\ spouseRelation.relationship.type # "unknown"
                 /\ spouseRelation.relationship.type # "self"
              THEN [fromId |-> from, toId |-> to, path |-> spouseRelation.path,
                    relationship |-> spouseRelation.relationship,
                    label |-> "Spouse's " \o spouseRelation.label]
              ELSE SpouseRelativeScan(this, from, to, i + 1)

checkSpouseBloodRelatives(this, from, to) ==
    IF ~HasIndividual(this, from) THEN Null
    ELSE SpouseRelativeScan(this, from, to, 1)

\* Lines 44-71: what findRelationship does once both depth maps are computed
RECURSIVE resolveFromAncestors(_, _, _, _, _, _)
resolveFromAncestors(this, from, to, skipSpouseCheck, fromAnc, toAnc) ==
    LET commonAncestor == findNearestCommonAncestor(fromAnc, toAnc) IN
    IF commonAncestor # Null THEN calculateBloodRelationship(this, from, to, commonAncestor)
    ELSE LET inLawRelation == checkInLawRelationship(this, from, to) IN
    IF inLawRelation # Null THEN inLawRelation
    ELSE LET spouseBloodRelation == IF skipSpouseCheck THEN Null
                                    ELSE checkSpouseBloodRelatives(this, from, to) IN
    IF spouseBloodRelation # Null THEN spouseBloodRelation
    ELSE UnknownResult(from, to)

\* the common-ancestor lookup placed before the spouse lookup
findRelationshipBloodFirst(this, from, to, skipSpouseCheck) ==
    IF from = to THEN SelfResult(from, to)
    ELSE LET fromAnc == findAncestorsWithDepth(this, from)
             toAnc == findAncestorsWithDepth(this, to)
             commonAncestor == findNearestCommonAncestor(fromAnc, toAnc)
             spouseRelation == checkSpouseRelationship(this, from, to)
         IN IF commonAncestor # Null
            THEN calculateBloodRelationship(this, from, to, commonAncestor)
            ELSE IF spouseRelation # Null THEN spouseRelation
            ELSE resolveFromAncestors(this, from, to, skipSpouseCheck, fromAnc, toAnc)

\* the identity test placed after the spouse lookup
findRelationshipSpouseFirst(this, from, to, skipSpouseCheck) ==
    LET spouseRelation == checkSpouseRelationship(this, from, to) IN
    IF spouseRelation # Null THEN spouseRelation
    ELSE IF from = to THEN SelfResult(from, to)
    ELSE resolveFromAncestors(this, from, to, skipSpouseCheck,
                              findAncestorsWithDepth(this, from),
                              findAncestorsWithDepth(this, to))

findRelationship(this, from, to, skipSpouseCheck) ==
    IF from = to THEN SelfResult(from, to)
    ELSE LET spouseRelation == checkSpouseRelationship(this, from, to) IN
    IF spouseRelation # Null THEN spouseRelation
    ELSE resolveFromAncestors(this, from, to, skipSpouseCheck,
                              findAncestorsWithDepth(this, from),
                              findAncestorsWithDepth(this, to))

-----------------------------------------------------------------------------
(* findRelationshipPath (src/src/contexts/FamilyTreeContext.tsx).          *)
(* `data` is the snapshot, a record of the maps individuals and families;  *)
(* a queue entry is [id, path].                                            *)

\* s without the entries equal to x, in order
SeqWithout(s, x) == SelectSeq(s, LAMBDA y : y # x)

Present(id) == IF id = NoId THEN <<>> ELSE <<id>>

PresentOther(id, personId) == IF id = NoId \/ id = personId THEN <<>> ELSE <<id>>

\* lines 771-782: parents, then the other children of the own parent unit
ConnectedAbove(data, personId) ==
    LET fid == data.individuals[personId].familyAsChild IN
    IF fid = NoId \/ ~HasFamily(data, fid) THEN <<>>
    ELSE LET family == data.families[fid] IN
         Present(family.husband) \o Present(family.wife) \o SeqWithout(family.children, personId)

\* lines 784-792: per own spouse unit, the other spouse slots and all children
RECURSIVE ConnectedBelow(_, _, _)
ConnectedBelow(data, personId, i) ==
    LET fas == data.individuals[personId].familyAsSpouse IN
    IF i > Len(fas) THEN <<>>
    ELSE IF ~HasFamily(data, fas[i]) THEN ConnectedBelow(data, personId, i + 1)
    ELSE LET family == data.families[fas[i]] IN
         PresentOther(family.husband, personId) \o PresentOther(family.wife, personId)
             \o family.children \o ConnectedBelow(data, personId, i + 1)

getConnectedPeople(data, personId) ==
    IF ~HasIndividual(data, personId) THEN <<>>
    ELSE ConnectedAbove(data, personId) \o ConnectedBelow(data, personId, 1)

\* the for loop over `connected` (lines 805-812): returns [found, path, queue]
RECURSIVE ScanConnected(_, _, _, _, _, _)
ScanConnected(connected, k, to, entryPath, visitedIds, q) ==
    IF k > Len(connected) THEN [found |-> FALSE, path |-> <<>>, queue |-> q]
    ELSE IF connected[k] = to
    THEN [found |-> TRUE, path |-> Append(entryPath, connected[k]), queue |-> q]
    ELSE IF connected[k] \notin visitedIds
    THEN ScanConnected(connected, k + 1, to, entryPath, visitedIds,
                       Append(q, [id |-> connected[k], path |-> Append(entryPath, connected[k])]))
    ELSE ScanConnected(connected, k + 1, to, entryPath, visitedIds, q)

\* the while loop without its `if (visited.has(id)) continue`
PathStepRevisits(data, to, q, visitedIds) ==
    LET entry == Head(q)
        scan == ScanConnected(getConnectedPeople(data, entry.id), 1, to,
                              entry.path, visitedIds, Tail(q))
    IN  [found |-> scan.found, path |-> scan.path, queue |-> scan.queue,
         visited |-> visitedIds \cup {entry.id}]

\* the queue used as a stack: the entry pushed last is taken first
PathStepLifo(data, to, q, visitedIds) ==
    LET entry == q[Len(q)]
        others == SubSeq(q, 1, Len(q) - 1)
    IN
    IF entry.id \in visitedIds
    THEN [found |-> FALSE, path |-> <<>>, queue |-> others, visited |-> visitedIds]
    ELSE LET seen == visitedIds \cup {entry.id}
             scan == ScanConnected(getConnectedPeople(data, entry.id), 1, to,
                                   entry.path, seen, others)
         IN  [found |-> scan.found, path |-> scan.path, queue |-> scan.queue, visited |-> seen]

\* One iteration of the while loop (lines 797-813) on a non-empty queue:
\* returns [found, path, queue, visited]
PathStep(data, to, q, visitedIds) ==
    LET entry == Head(q) IN
    IF entry.id \in visitedIds
    THEN [found |-> FALSE, path |-> <<>>, queue |-> Tail(q), visited |-> visitedIds]
    ELSE LET seen == visitedIds \cup {entry.id}
             scan == ScanConnected(getConnectedPeople(data, entry.id), 1, to,
                                   entry.path, seen, Tail(q))
         IN  [found |-> scan.found, path |-> scan.path, queue |-> scan.queue, visited |-> seen]

RECURSIVE PathLoop(_, _, _, _)
PathLoop(data, to, q, visitedIds) ==
    IF q = <<>> THEN <<>>
    ELSE LET s == PathStep(data, to, q, visitedIds) IN
         IF s.found THEN s.path ELSE PathLoop(data, to, s.queue, s.visited)

findRelationshipPath(data, from, to) ==
    IF from = to THEN <<from>>
    ELSE PathLoop(data, to, <<[id |-> from, path |-> <<from>>]>>, {})

-----------------------------------------------------------------------------
(* getStepRelation, getRelationshipWithChain (FamilyTreeContext) *)

\* sex === 'M' ? m : sex === 'F' ? f : u, for a person that exists
StepWord(data, id, m, f, u) ==
    IF data.individuals[id].sex = "M" THEN m
    ELSE IF data.individuals[id].sex = "F" THEN f
    ELSE u

StepIsParent(data, from, to) ==
    LET fid == data.individuals[from].familyAsChild IN
    /\ fid # NoId
    /\ HasFamily(data, fid)
    /\ (data.families[fid].husband = to \/ data.families[fid].wife = to)

StepIsChild(data, from, to) ==
    \E i \in DOMAIN data.individuals[from].familyAsSpouse :
        LET fid == data.individuals[from].familyAsSpouse[i] IN
        HasFamily(data, fid) /\ SeqHas(data.families[fid].children, to)

StepIsSpouse(data, from, to) ==
    \E i \in DOMAIN data.individuals[from].familyAsSpouse :
        LET fid == data.individuals[from].familyAsSpouse[i] IN
        HasFamily(data, fid) /\ OtherSpouse(data.families[fid], from) = to

StepIsSibling(data, from, to) ==
    LET fid == data.individuals[from].familyAsChild IN
    /\ fid # NoId
    /\ HasFamily(data, fid)
    /\ SeqHas(data.families[fid].children, to)

\* the sibling test left out
getStepRelationNoSibling(data, from, to) ==
    IF ~HasIndividual(data, from) \/ ~HasIndividual(data, to) THEN ""
    ELSE IF StepIsParent(data, from, to) THEN StepWord(data, to, "Father", "Mother", "Parent")
    ELSE IF StepIsChild(data, from, to) THEN StepWord(data, to, "Son", "Daughter", "Child")
    ELSE IF StepIsSpouse(data, from, to) THEN StepWord(data, to, "Husband", "Wife", "Spouse")
    ELSE ""

getStepRelation(data, from, to) ==
    IF ~HasIndividual(data, from) \/ ~HasIndividual(data, to) THEN ""
    ELSE IF StepIsParent(data, from, to) THEN StepWord(data, to, "Father", "Mother", "Parent")
    ELSE IF StepIsChild(data, from, to) THEN StepWord(data, to, "Son", "Daughter", "Child")
    ELSE IF StepIsSpouse(data, from, to) THEN StepWord(data, to, "Husband", "Wife", "Spouse")
    ELSE IF StepIsSibling(data, from, to) THEN StepWord(data, to, "Brother", "Sister", "Sibling")
    ELSE ""

\* the loop over the hops of the path (lines 274-280): recognised labels, in order
RECURSIVE buildChain(_, _, _)
buildChain(data, path, i) ==
    IF i > Len(path) - 1 THEN <<>>
    ELSE LET relation == getStepRelation(data, path[i], path[i + 1]) IN
         (IF relation # "" THEN <<relation>> ELSE <<>>) \o buildChain(data, path, i + 1)

\* chain.map(...).join(' ') (lines 287-292)
RECURSIVE formatChain(_, _)
formatChain(chain, idx) ==
    IF idx = Len(chain) THEN chain[idx]
    ELSE chain[idx] \o "'s" \o " " \o formatChain(chain, idx + 1)

getRelationshipWithChain(data, from, to) ==
    IF DOMAIN data.individuals = {} THEN "Unknown"
    ELSE LET found == findRelationship(data, from, to, FALSE) IN
         IF found.relationship.type # "unknown" THEN found.label
         ELSE IF from = to THEN "Self"
         ELSE LET path == PathLoop(data, to, <<[id |-> from, path |-> <<from>>]>>, {})
                  chain == buildChain(data, path, 1)
              IN  IF path = <<>> THEN "Unknown Relation"
                  ELSE IF chain = <<>> THEN "Unknown Relation"
                  ELSE formatChain(chain, 1)

-----------------------------------------------------------------------------
(* Snapshots the calculator is constructed from (FamilyTreeData).          *)
(* A snapshot over persons 1..n is given by the parent unit of each person *)
(* and a set of further couples; the unit records and the persons'         *)
(* references to them are derived from that, so that they agree.           *)

NumPersons == 4

MaxMarriages == 3

PedigreePersons == 6

WalkPersons == 3

\* Ids that are never keys of individuals
GhostIds == {101, 102}

SexOf(p) == IF p % 3 = 1 THEN "M" ELSE IF p % 3 = 2 THEN "F" ELSE "U"

\* <<>> : no familyAsChild; <<h, w>> : the unit of that couple (NoId = empty slot)
NoUnit == <<>>

ParentlessUnit == <<NoId, NoId>>

PairsAmong(S) == {<<h, w>> \in S \X S : h < w}

CouplesAmong(S) == {<<h, NoId>> : h \in S} \cup PairsAmong(S)

SubsetsUpTo(S, k) == {T \in SUBSET S : Cardinality(T) <= k}

RECURSIVE SortedSeq(_)
SortedSeq(S) ==
    IF S = {} THEN <<>>
    ELSE LET m == CHOOSE x \in S : \A y \in S : x <= y
         IN <<m>> \o SortedSeq(S \ {m})

UnitKey(u) == u[1] * 1000 + u[2]

UnitOfKey(k) == <<k \div 1000, k % 1000>>

UnitList(n, parents, marriages) ==
    LET keys == SortedSeq({UnitKey(u) : u \in ({parents[p] : p \in 1..n} \ {NoUnit}) \cup marriages})
    IN  [k \in 1..Len(keys) |-> UnitOfKey(keys[k])]

BuildFamilies(n, parents, marriages) ==
    LET units == UnitList(n, parents, marriages) IN
    [f \in 1..Len(units) |->
        [husband |-> units[f][1], wife |-> units[f][2],
         children |-> SortedSeq({p \in 1..n : parents[p] = units[f]})]]

BuildIndividuals(n, parents, marriages) ==
    LET units == UnitList(n, parents, marriages) IN
    [p \in 1..n |->
        [sex |-> SexOf(p),
         familyAsSpouse |-> SortedSeq({f \in 1..Len(units) : units[f][1] = p \/ units[f][2] = p}),
         familyAsChild |-> IF parents[p] = NoUnit THEN NoId
                           ELSE CHOOSE f \in 1..Len(units) : units[f] = parents[p]]]

\* a family tree: parents are older (lower id) persons; siblings may share a
\* unit whose parents are both unrecorded.  A pedigree: every unit has a
\* recorded parent.  Otherwise any person may be recorded as a parent,
\* including a descendant or the person.
ParentChoices(kind, p) ==
    IF kind = "tree" THEN {NoUnit, ParentlessUnit} \cup CouplesAmong(1..(p - 1))
    ELSE IF kind = "pedigree" THEN {NoUnit} \cup CouplesAmong(1..(p - 1))
    ELSE {NoUnit} \cup CouplesAmong(1..WalkPersons)

\* the parent units of persons 1..n
RECURSIVE ParentTables(_, _)
ParentTables(kind, n) ==
    IF n = 0 THEN {<<>>}
    ELSE {Append(par, c) : par \in ParentTables(kind, n - 1), c \in ParentChoices(kind, n)}

this == Calculator(individuals, families)

\* ids a caller may ask about: the keys of individuals, the ids the units
\* mention, and ids nothing mentions
ReferencedIds ==
    UNION {{families[f].husband, families[f].wife}
              \cup {families[f].children[k] : k \in 1..Len(families[f].children)} :
           f \in DOMAIN families} \ {NoId}

Ids == DOMAIN individuals \cup ReferencedIds \cup GhostIds

Quiet ==
    /\ pc = "idle"
    /\ fromId = NoId
    /\ toId = NoId
    /\ result = Null
    /\ queue = <<>>
    /\ ancestors = <<>>
    /\ fromAncestors = <<>>
    /\ visits = [i \in Ids |-> 0]
    /\ iterations = 0
    /\ stack = <<>>
    /\ nestedCalls = 0
    /\ visited = {}
    /\ pathResult = <<>>
    /\ chainLabel = ""
    /\ rendered = [individuals |-> individuals, families |-> families]
    /\ clock = Cardinality(DOMAIN families) + 1
    /\ log = <<>>
    /\ isSaving = FALSE
    /\ saveError = Null
    /\ inflight = <<>>
    /\ done = <<>>

Idle ==
    /\ Quiet
    /\ isSupabaseEnabled = FALSE

Init ==
    /\ \E par \in ParentTables("tree", NumPersons),
          mar \in SubsetsUpTo(PairsAmong(1..NumPersons), MaxMarriages) :
          /\ individuals = BuildIndividuals(NumPersons, par, mar)
          /\ families = BuildFamilies(NumPersons, par, mar)
    /\ Idle

InitPedigree ==
    /\ \E par \in ParentTables("pedigree", PedigreePersons) :
          /\ individuals = BuildIndividuals(PedigreePersons, par, {})
          /\ families = BuildFamilies(PedigreePersons, par, {})
    /\ Idle

InitWalk ==
    /\ \E par \in ParentTables("any", WalkPersons) :
          /\ individuals = BuildIndividuals(WalkPersons, par, {})
          /\ families = BuildFamilies(WalkPersons, par, {})
    /\ Idle

\* Snapshots whose references do not agree, as imported data or earlier
\* edits leave them: one reference of one person is off.
DefectPersons == 3

MaxDefectMarriages == 1

DanglingFamilyIds == {99}

DanglingFamily == CHOOSE f \in DanglingFamilyIds : TRUE

DefectKinds == {"danglingChild", "danglingSpouse", "lostSpouseRef", "lostChildRef",
                "removedPerson", "selfSpouse"}

Defects(n) == {[kind |-> "none", person |-> NoId]}
                  \cup {[kind |-> k, person |-> p] : k \in DefectKinds, p \in 1..n}

DefectIndividuals(ind, fam, d) ==
    LET p == d.person IN
    IF d.kind = "danglingChild" THEN [ind EXCEPT ![p].familyAsChild = DanglingFamily]
    ELSE IF d.kind = "danglingSpouse"
    THEN [ind EXCEPT ![p].familyAsSpouse = <<DanglingFamily>> \o @]
    ELSE IF d.kind = "lostSpouseRef"
    THEN [ind EXCEPT ![p].familyAsSpouse = IF @ = <<>> THEN @ ELSE Tail(@)]
    ELSE IF d.kind = "lostChildRef" THEN [ind EXCEPT ![p].familyAsChild = NoId]
    ELSE IF d.kind = "removedPerson" THEN [q \in DOMAIN ind \ {p} |-> ind[q]]
    ELSE IF d.kind = "selfSpouse"
    THEN [ind EXCEPT ![p].familyAsSpouse = <<Len(fam) + 1>> \o @]
    ELSE ind

DefectFamilies(ind, fam, d) ==
    IF d.kind = "selfSpouse"
    THEN Append(fam, [husband |-> d.person, wife |-> d.person, children |-> <<>>])
    ELSE fam

InitDefect ==
    /\ \E par \in ParentTables("tree", DefectPersons),
          mar \in SubsetsUpTo(PairsAmong(1..DefectPersons), MaxDefectMarriages),
          d \in Defects(DefectPersons) :
          LET ind == BuildIndividuals(DefectPersons, par, mar)
              fam == BuildFamilies(DefectPersons, par, mar)
          IN  /\ individuals = DefectIndividuals(ind, fam, d)
              /\ families = DefectFamilies(ind, fam, d)
    /\ Idle

\* Snapshots in which one person names a parent unit that no longer lists
\* the person among its children (a children list written back from an
\* older copy of the unit): one couple with children, one further couple.
StalePersons == 5

Unlisted(fam, p) ==
    [f \in DOMAIN fam |-> [fam[f] EXCEPT !.children = SeqWithout(@, p)]]

OneParentUnit(par) ==
    Cardinality({par[p] : p \in DOMAIN par} \ {NoUnit}) <= 1

InitStale ==
    /\ \E par \in {t \in ParentTables("pedigree", StalePersons) : OneParentUnit(t)},
          mar \in SubsetsUpTo(PairsAmong(1..StalePersons), 1),
          p \in 0..StalePersons :
          /\ individuals = BuildIndividuals(StalePersons, par, mar)
          /\ families = Unlisted(BuildFamilies(StalePersons, par, mar), p)
    /\ Idle

-----------------------------------------------------------------------------
(* A query, taken as one step *)

FindRelationship ==
    /\ pc = "idle"
    /\ \E a \in Ids, b \in Ids :
          /\ fromId' = a
          /\ toId' = b
          /\ result' = findRelationship(this, a, b, FALSE)
    /\ pc' = "returned"
    /\ UNCHANGED <<ctxVars, individuals, families, queue, ancestors, fromAncestors, visits, iterations>>
    /\ UNCHANGED <<callVars, pathVars>>

Next == FindRelationship

Spec == Init /\ [][Next]_vars

SpecPedigree == InitPedigree /\ [][Next]_vars

SpecDefect == InitDefect /\ [][Next]_vars

SpecStale == InitStale /\ [][Next]_vars

-----------------------------------------------------------------------------
(* A query, taken one iteration of the ancestor walk at a time.            *)
(* visits[i] counts the ancestors.set(i, ...) calls of the walk in         *)
(* progress, iterations the passes through its while loop.                 *)

Call ==
    /\ pc = "idle"
    /\ \E a \in Ids, b \in Ids :
          /\ fromId' = a
          /\ toId' = b
          /\ IF a = b
             THEN /\ result' = SelfResult(a, b)
                  /\ pc' = "returned"
                  /\ queue' = queue
             ELSE IF checkSpouseRelationship(this, a, b) # Null
             THEN /\ result' = checkSpouseRelationship(this, a, b)
                  /\ pc' = "returned"
                  /\ queue' = queue
             ELSE /\ result' = result
                  /\ pc' = "walkFrom"
                  /\ queue' = <<[id |-> a, depth |-> 0]>>
    /\ UNCHANGED <<ctxVars, individuals, families, ancestors, fromAncestors, visits, iterations>>
    /\ UNCHANGED <<callVars, pathVars>>

WalkIteration ==
    /\ pc \in {"walkFrom", "walkTo"}
    /\ queue # <<>>
    /\ LET s == WalkStep(this, queue, ancestors) IN
          /\ queue' = s.queue
          /\ ancestors' = s.ancestors
          /\ visits' = IF Len(s.ancestors) > Len(ancestors)
                       THEN [visits EXCEPT ![Head(queue).id] = @ + 1]
                       ELSE visits
    /\ iterations' = iterations + 1
    /\ UNCHANGED <<ctxVars, individuals, families, pc, fromId, toId, result, fromAncestors>>
    /\ UNCHANGED <<callVars, pathVars>>

WalkFromReturn ==
    /\ pc = "walkFrom"
    /\ queue = <<>>
    /\ fromAncestors' = ancestors
    /\ ancestors' = <<>>
    /\ queue' = <<[id |-> toId, depth |-> 0]>>
    /\ visits' = [i \in Ids |-> 0]
    /\ iterations' = 0
    /\ pc' = "walkTo"
    /\ UNCHANGED <<ctxVars, individuals, families, fromId, toId, result>>
    /\ UNCHANGED <<callVars, pathVars>>

WalkToReturn ==
    /\ pc = "walkTo"
    /\ queue = <<>>
    /\ result' = resolveFromAncestors(this, fromId, toId, FALSE, fromAncestors, ancestors)
    /\ pc' = "returned"
    /\ UNCHANGED <<ctxVars, individuals, families, fromId, toId, queue, ancestors, fromAncestors,
                   visits, iterations>>
    /\ UNCHANGED <<callVars, pathVars>>

NextWalk == Call \/ WalkIteration \/ WalkFromReturn \/ WalkToReturn

SpecWalk == InitWalk /\ [][NextWalk]_vars

-----------------------------------------------------------------------------
(* A query, taken call by call.  stack holds one frame per findRelationship *)
(* call in progress, the top-level call first; nestedCalls counts the      *)
(* calls made by checkSpouseBloodRelatives.                                *)

Frame(from, to, skipSpouseCheck) ==
    [from |-> from, to |-> to, skipSpouseCheck |-> skipSpouseCheck,
     phase |-> "entry", i |-> 0, ret |-> Null]

\* Lines 24-55: the result found before the fallback is considered, or Null
beforeFallback(calc, from, to) ==
    IF from = to THEN SelfResult(from, to)
    ELSE LET spouseRelation == checkSpouseRelationship(calc, from, to) IN
    IF spouseRelation # Null THEN spouseRelation
    ELSE LET commonAncestor == findNearestCommonAncestor(findAncestorsWithDepth(calc, from),
                                                         findAncestorsWithDepth(calc, to)) IN
    IF commonAncestor # Null THEN calculateBloodRelationship(calc, from, to, commonAncestor)
    ELSE checkInLawRelationship(calc, from, to)

\* the flag passed on by the fallback itself
nestedSkipInherited(skipSpouseCheck) == skipSpouseCheck

\* Line 442: this.findRelationship(spouseId, toId, true)
nestedSkipSpouseCheck(skipSpouseCheck) == TRUE

Top == stack[Len(stack)]

SetTop(f) == [stack EXCEPT ![Len(stack)] = f]

CallTop ==
    /\ pc = "idle"
    /\ \E a \in Ids, b \in Ids :
          /\ fromId' = a
          /\ toId' = b
          /\ stack' = <<Frame(a, b, FALSE)>>
    /\ pc' = "calls"
    /\ UNCHANGED <<ctxVars, individuals, families, result, queue, ancestors, fromAncestors,
                   visits, iterations, nestedCalls, pathVars>>

\* Lines 24-71 of the call on top of the stack, up to the fallback
Body ==
    /\ pc = "calls"
    /\ Top.phase = "entry"
    /\ LET r == beforeFallback(this, Top.from, Top.to) IN
       stack' = IF r # Null THEN SetTop([Top EXCEPT !.phase = "return", !.ret = r])
                ELSE IF ~Top.skipSpouseCheck /\ HasIndividual(this, Top.from)
                THEN SetTop([Top EXCEPT !.phase = "fallback", !.i = 1])
                ELSE SetTop([Top EXCEPT !.phase = "return",
                                        !.ret = UnknownResult(Top.from, Top.to)])
    /\ UNCHANGED <<ctxVars, individuals, families, pc, fromId, toId, result, queue, ancestors,
                   fromAncestors, visits, iterations, nestedCalls, pathVars>>

\* One pass through the for loop of checkSpouseBloodRelatives up to its
\* nested call (lines 433-442), or the end of the loop
Fallback ==
    /\ pc = "calls"
    /\ Top.phase = "fallback"
    /\ LET fas == individuals[Top.from].familyAsSpouse IN
       IF Top.i > Len(fas)
       THEN /\ stack' = SetTop([Top EXCEPT !.phase = "return",
                                           !.ret = UnknownResult(Top.from, Top.to)])
            /\ nestedCalls' = nestedCalls
       ELSE IF \/ ~HasFamily(this, fas[Top.i])
               \/ OtherSpouse(families[fas[Top.i]], Top.from) = NoId
       THEN /\ stack' = SetTop([Top EXCEPT !.i = @ + 1])
            /\ nestedCalls' = nestedCalls
       ELSE /\ stack' = Append(SetTop([Top EXCEPT !.phase = "nested"]),
                               Frame(OtherSpouse(families[fas[Top.i]], Top.from), Top.to,
                                     nestedSkipSpouseCheck(Top.skipSpouseCheck)))
            /\ nestedCalls' = nestedCalls + 1
    /\ UNCHANGED <<ctxVars, individuals, families, pc, fromId, toId, result, queue, ancestors,
                   fromAncestors, visits, iterations, pathVars>>

\* The call on top of the stack returns: to the caller of the query, or to
\* the loop of checkSpouseBloodRelatives (lines 443-452)
Return ==
    /\ pc = "calls"
    /\ Top.phase = "return"
    /\ IF Len(stack) = 1
       THEN /\ result' = Top.ret
            /\ pc' = "returned"
            /\ stack' = <<>>
       ELSE LET caller == stack[Len(stack) - 1]
                spouseRelation == Top.ret
                rest == SubSeq(stack, 1, Len(stack) - 2)
            IN  /\ stack' =
                      IF /\ spouseRelation.relationship.type # "unknown"
                         /\ spouseRelation.relationship.type # "self"
                      THEN Append(rest, [caller EXCEPT
                               !.phase = "return",
                               !.ret = [fromId |-> caller.from, toId |-> caller.to,
                                        path |-> spouseRelation.path,
                                        relationship |-> spouseRelation.relationship,
                                        label |-> "Spouse's " \o spouseRelation.label]])
                      ELSE Append(rest, [caller EXCEPT !.phase = "fallback", !.i = @ + 1])
                /\ UNCHANGED <<pc, result>>
    /\ UNCHANGED <<ctxVars, individuals, families, fromId, toId, queue, ancestors,
                   fromAncestors, visits, iterations, nestedCalls, pathVars>>

NextCalls == CallTop \/ Body \/ Fallback \/ Return

SpecCalls == Init /\ [][NextCalls]_vars

-----------------------------------------------------------------------------
(* A path search, taken as one step, over family trees without further     *)
(* couples and over the snapshots whose references do not agree.           *)

PathPersons == 5

InitPath ==
    /\ \/ \E par \in ParentTables("tree", PathPersons) :
             /\ individuals = BuildIndividuals(PathPersons, par, {})
             /\ families = BuildFamilies(PathPersons, par, {})
       \/ \E par \in ParentTables("tree", DefectPersons),
             mar \in SubsetsUpTo(PairsAmong(1..DefectPersons), MaxDefectMarriages),
             d \in Defects(DefectPersons) :
             LET ind == BuildIndividuals(DefectPersons, par, mar)
                 fam == BuildFamilies(DefectPersons, par, mar)
             IN  /\ individuals = DefectIndividuals(ind, fam, d)
                 /\ families = DefectFamilies(ind, fam, d)
    /\ Idle

FindRelationshipPath ==
    /\ pc = "idle"
    /\ \E a \in Ids, b \in Ids :
          /\ fromId' = a
          /\ toId' = b
          /\ pathResult' = findRelationshipPath(this, a, b)
    /\ pc' = "returned"
    /\ UNCHANGED <<ctxVars, individuals, families, result, queue, ancestors, fromAncestors,
                   visits, iterations, callVars, visited>>

NextPath == FindRelationshipPath

SpecPath == InitPath /\ [][NextPath]_vars

(* A path search, taken one iteration of its while loop at a time;         *)
(* iterations counts the passes through the loop.                          *)

PathCall ==
    /\ pc = "idle"
    /\ \E a \in Ids, b \in Ids :
          /\ fromId' = a
          /\ toId' = b
          /\ IF a = b
             THEN /\ pathResult' = <<a>>
                  /\ pc' = "returned"
                  /\ queue' = queue
             ELSE /\ pathResult' = pathResult
                  /\ pc' = "search"
                  /\ queue' = <<[id |-> a, path |-> <<a>>]>>
    /\ UNCHANGED <<ctxVars, individuals, families, result, ancestors, fromAncestors,
                   visits, iterations, callVars, visited>>

PathIteration ==
    /\ pc = "search"
    /\ queue # <<>>
    /\ LET s == PathStep(this, toId, queue, visited) IN
          /\ visited' = s.visited
          /\ visits' = IF s.visited # visited
                       THEN [visits EXCEPT ![Head(queue).id] = @ + 1]
                       ELSE visits
          /\ IF s.found
             THEN /\ pathResult' = s.path
                  /\ pc' = "returned"
                  /\ queue' = queue
             ELSE /\ pathResult' = pathResult
                  /\ pc' = pc
                  /\ queue' = s.queue
    /\ iterations' = iterations + 1
    /\ UNCHANGED <<ctxVars, individuals, families, fromId, toId, result, ancestors, fromAncestors,
                   callVars>>

PathExhausted ==
    /\ pc = "search"
    /\ queue = <<>>
    /\ pathResult' = <<>>
    /\ pc' = "returned"
    /\ UNCHANGED <<ctxVars, individuals, families, fromId, toId, result, queue, ancestors,
                   fromAncestors, visits, iterations, callVars, visited>>

NextPathWalk == PathCall \/ PathIteration \/ PathExhausted

\* snapshots with broken references, and snapshots with cycles of parents
InitPathWalk == InitDefect \/ InitWalk

SpecPathWalk == InitPathWalk /\ [][NextPathWalk]_vars

-----------------------------------------------------------------------------
(* Properties of findRelationship *)

Returned == pc = "returned"

Kind(r) == r.relationship.type

Reverse == findRelationship(this, toId, fromId, FALSE)

\* toId is the opposing slot of an existing unit listed in fromId's familyAsSpouse
DirectSpouse(a, b) ==
    /\ a \in DOMAIN individuals
    /\ \E k \in 1..Len(individuals[a].familyAsSpouse) :
          LET f == individuals[a].familyAsSpouse[k] IN
          /\ f \in DOMAIN families
          /\ \/ families[f].husband = a /\ families[f].wife = b
             \/ families[f].wife = a /\ families[f].husband = b /\ families[f].husband # a

SharedAncestors(a, b) ==
    MapKeys(findAncestorsWithDepth(this, a)) \cap MapKeys(findAncestorsWithDepth(this, b))

\* C1: findRelationship(x, x) is 'self' with label 'Self' for every id x, a
\* key of individuals or not, whatever units list x as a spouse.
C1_Reflexive ==
    (Returned /\ fromId = toId) =>
        /\ Kind(result) = "self"
        /\ result.label = "Self"
        /\ result.path = <<>>

\* a person listed as both spouses of a unit asks about themselves
C1_Witness ==
    /\ Returned
    /\ fromId = toId
    /\ DirectSpouse(fromId, fromId)
    /\ Kind(result) = "self"

\* C2: if findRelationship(a, b) has kind 'spouse' then so has findRelationship(b, a).
C2_SpouseSymmetry ==
    (Returned /\ Kind(result) = "spouse") => Kind(Reverse) = "spouse"

\* C3: for a, b with a common ancestor and no direct spouse link either way,
\* if findRelationship(a, b) is 'parent' with n generations then
\* findRelationship(b, a) is 'child' with n generations.
C3_GenerationInversion ==
    (/\ Returned
     /\ Kind(result) = "parent"
     /\ ~DirectSpouse(fromId, toId)
     /\ ~DirectSpouse(toId, fromId)
     /\ SharedAncestors(fromId, toId) # {}) =>
        /\ Kind(Reverse) = "child"
        /\ Reverse.relationship.generations = result.relationship.generations

\* a grandparent or remoter ancestor who also has an ancestor in common with
\* the descendant
C3_Witness ==
    /\ Returned
    /\ Kind(result) = "parent"
    /\ result.relationship.generations >= 2
    /\ ~DirectSpouse(fromId, toId)
    /\ ~DirectSpouse(toId, fromId)
    /\ Cardinality(SharedAncestors(fromId, toId)) >= 2
    /\ Kind(Reverse) = "child"

\* C4: if findRelationship(a, b) is 'cousin' with degree d and removed r then
\* findRelationship(b, a) is 'cousin' with the same d and r.
C4_CousinSymmetry ==
    (Returned /\ Kind(result) = "cousin") =>
        /\ Kind(Reverse) = "cousin"
        /\ Reverse.relationship.degree = result.relationship.degree
        /\ Reverse.relationship.removed = result.relationship.removed

\* C5: two distinct ids that are not keys of individuals are 'unknown' with
\* label 'Unknown Relation', whatever the units mention.
C5_GarbageIds ==
    (/\ Returned
     /\ fromId # toId
     /\ fromId \notin DOMAIN individuals
     /\ toId \notin DOMAIN individuals) =>
        /\ Kind(result) = "unknown"
        /\ result.label = "Unknown Relation"
        /\ result.path = <<>>

\* both ids are missing from individuals while units still name them
C5_Witness ==
    /\ Returned
    /\ fromId # toId
    /\ fromId \notin DOMAIN individuals
    /\ toId \notin DOMAIN individuals
    /\ fromId \in ReferencedIds
    /\ Kind(result) = "unknown"

\* C6: the ancestor walk records each id at most once, so its while loop
\* (one pass per queued entry, at most two entries queued per recorded id)
\* runs at most 1 + 2 * (number of ids) times: findRelationship returns on
\* every snapshot, also when a person is recorded as their own parent or
\* ancestor.
C6_CycleSafety ==
    /\ \A i \in Ids : visits[i] <= 1
    /\ iterations + Len(queue) <= 1 + 2 * Len(ancestors)
    /\ Len(ancestors) <= Cardinality(Ids)
    /\ iterations <= 1 + 2 * Cardinality(Ids)

\* x is recorded as husband or wife of the unit y is a child of
RecordedParent(x, y) ==
    /\ y \in DOMAIN individuals
    /\ individuals[y].familyAsChild \in DOMAIN families
    /\ x \in {families[individuals[y].familyAsChild].husband,
              families[individuals[y].familyAsChild].wife}

\* fromId is a recorded parent of one of its own remoter ancestors, and the
\* query has returned
C6_Witness ==
    /\ Returned
    /\ \E k \in 2..Len(fromAncestors) : RecordedParent(fromId, fromAncestors[k].id)

\* the snapshot with every reference to a missing unit deleted
Pruned ==
    Calculator(
        [p \in DOMAIN individuals |->
            [individuals[p] EXCEPT
                !.familyAsChild = IF @ \in DOMAIN families THEN @ ELSE NoId,
                !.familyAsSpouse = SelectSeq(@, LAMBDA f : f \in DOMAIN families)]],
        families)

HasDangling(p) ==
    /\ p \in DOMAIN individuals
    /\ \/ individuals[p].familyAsChild \notin DOMAIN families \cup {NoId}
       \/ \E k \in 1..Len(individuals[p].familyAsSpouse) :
             individuals[p].familyAsSpouse[k] \notin DOMAIN families

\* C7: a reference to a unit that is not a key of families counts as no
\* reference: the result has the kind, parameters and label it has on the
\* snapshot with those references deleted.
C7_DanglingIgnored ==
    Returned =>
        LET r == findRelationship(Pruned, fromId, toId, FALSE) IN
        /\ result.relationship = r.relationship
        /\ result.label = r.label

\* a dangling unit id precedes the unit that makes the two spouses
C7_Witness ==
    /\ Returned
    /\ HasDangling(fromId)
    /\ individuals[fromId].familyAsSpouse # <<>>
    /\ individuals[fromId].familyAsSpouse[1] \notin DOMAIN families
    /\ Kind(result) = "spouse"

BloodKinds == {"parent", "child", "sibling", "uncle-aunt", "nephew-niece", "cousin"}

\* the current spouses of a: the opposing slots of its existing units
CurrentSpouses(a) ==
    IF a \notin DOMAIN individuals THEN {}
    ELSE {OtherSpouse(families[individuals[a].familyAsSpouse[k]], a) :
             k \in {j \in 1..Len(individuals[a].familyAsSpouse) :
                       individuals[a].familyAsSpouse[j] \in DOMAIN families}} \ {NoId}

\* some current spouse of a has a named relation to b
SpouseHasNamedRelation(a, b) ==
    \E sp \in CurrentSpouses(a) :
        Kind(findRelationship(this, sp, b, TRUE)) \notin {"unknown", "self"}

FallbackLabels(a, b) ==
    {"Spouse's " \o findRelationship(this, sp, b, TRUE).label : sp \in CurrentSpouses(a)}

DirectLabels == {"Husband", "Wife", "Spouse"}

\* C8: for from # to the first match wins, in the order direct spouse, common
\* ancestor, in-law, spouse's relative, unknown.  Direct spouses are 'spouse'
\* also when they share an ancestor; a shared ancestor otherwise gives a
\* blood kind; an in-law result means no shared ancestor; a spouse's-relative
\* result means no in-law match either; 'Unknown Relation' means nothing matched.
C8_Precedence ==
    (Returned /\ fromId # toId) =>
        /\ DirectSpouse(fromId, toId) =>
              Kind(result) = "spouse" /\ result.label \in DirectLabels
        /\ (~DirectSpouse(fromId, toId) /\ SharedAncestors(fromId, toId) # {}) =>
              Kind(result) \in BloodKinds /\ result.label \notin FallbackLabels(fromId, toId)
        /\ Kind(result) = "in-law" =>
              ~DirectSpouse(fromId, toId) /\ SharedAncestors(fromId, toId) = {}
        /\ (/\ ~DirectSpouse(fromId, toId)
            /\ SharedAncestors(fromId, toId) = {}
            /\ checkInLawRelationship(this, fromId, toId) # Null) =>
              result = checkInLawRelationship(this, fromId, toId)
        /\ (/\ ~DirectSpouse(fromId, toId)
            /\ SharedAncestors(fromId, toId) = {}
            /\ checkInLawRelationship(this, fromId, toId) = Null
            /\ SpouseHasNamedRelation(fromId, toId)) =>
              result.label \in FallbackLabels(fromId, toId)
        /\ result.label = "Unknown Relation" =>
              /\ ~DirectSpouse(fromId, toId)
              /\ SharedAncestors(fromId, toId) = {}
              /\ checkInLawRelationship(this, fromId, toId) = Null
              /\ ~SpouseHasNamedRelation(fromId, toId)

\* direct spouses who share an ancestor
C8_Witness ==
    /\ Returned
    /\ fromId # toId
    /\ DirectSpouse(fromId, toId)
    /\ SharedAncestors(fromId, toId) # {}
    /\ Kind(result) = "spouse"

\* the spouse at position k of a's familyAsSpouse (NoId if the unit is missing)
SpouseAt(a, k) ==
    IF individuals[a].familyAsSpouse[k] \in DOMAIN families
    THEN OtherSpouse(families[individuals[a].familyAsSpouse[k]], a)
    ELSE NoId

ParentInLawLabels == {"Father-in-law", "Mother-in-law", "Parent-in-law"}

IsParentInLaw(r) ==
    /\ r.relationship = [type |-> "in-law", baseRelation |-> ParentBase]
    /\ r.label \in ParentInLawLabels

\* C9: whenever toId is a parent of a current spouse of fromId and there is
\* no direct spouse link and no common ancestor, the result is the
\* parent-in-law relation, even if toId is a sibling of another current spouse.
C9_ParentInLawFirst ==
    (/\ Returned
     /\ fromId \in DOMAIN individuals
     /\ ~DirectSpouse(fromId, toId)
     /\ SharedAncestors(fromId, toId) = {}
     /\ \E k \in 1..Len(individuals[fromId].familyAsSpouse) :
           RecordedParent(toId, SpouseAt(fromId, k))) =>
        IsParentInLaw(result)

\* the query is resolved by the spouse's-relative fallback
ByFallback ==
    /\ Returned
    /\ fromId # toId
    /\ ~DirectSpouse(fromId, toId)
    /\ SharedAncestors(fromId, toId) = {}
    /\ checkInLawRelationship(this, fromId, toId) = Null
    /\ SpouseHasNamedRelation(fromId, toId)

\* C10: a result of the spouse's-relative fallback has, for a current spouse
\* sp with a named relation to toId, the label "Spouse's " followed by the
\* label of findRelationship(sp, toId), and the kind 'in-law' with that
\* relation as its base relation.
C10_FallbackWrapsInLaw ==
    ByFallback =>
        \E sp \in CurrentSpouses(fromId) :
            LET r == findRelationship(this, sp, toId, TRUE) IN
            /\ Kind(r) \notin {"unknown", "self"}
            /\ result.label = "Spouse's " \o r.label
            /\ result.relationship = [type |-> "in-law", baseRelation |-> r.relationship]

\* the query taken call by call returns what findRelationship returns
CallsAgree == Returned => result = findRelationship(this, fromId, toId, FALSE)

\* C11: every call made by the spouse's-relative fallback has
\* skipSpouseCheck set and never enters the fallback itself, so at most two
\* calls are in progress at any time and one query makes at most one nested
\* call per unit in fromId's familyAsSpouse.
C11_RecursionGuard ==
    /\ Len(stack) <= 2
    /\ \A k \in 2..Len(stack) : stack[k].skipSpouseCheck
    /\ \A k \in 1..Len(stack) :
          stack[k].skipSpouseCheck => stack[k].phase \notin {"fallback", "nested"}
    /\ nestedCalls <= IF fromId \in DOMAIN individuals
                      THEN Len(individuals[fromId].familyAsSpouse) ELSE 0
    /\ CallsAgree

\* two nested calls have been made and returned, one of them for a spouse
\* who has fromId as a spouse in turn
C11_Witness ==
    /\ Returned
    /\ nestedCalls = 2
    /\ \E sp \in CurrentSpouses(fromId) : fromId \in CurrentSpouses(sp)

\* the finder's adjacency as a set, and what it reaches
Adjacent(x) ==
    LET connected == getConnectedPeople(this, x) IN {connected[k] : k \in 1..Len(connected)}

RECURSIVE Closure(_)
Closure(S) ==
    LET T == S \cup UNION {Adjacent(x) : x \in S} IN
    IF T = S THEN S ELSE Closure(T)

Reachable(a) == Closure({a})

\* the least number of hops from a member of S to b, given d hops so far; -1 if none
RECURSIVE HopsFrom(_, _, _)
HopsFrom(S, b, d) ==
    IF b \in S THEN d
    ELSE LET T == S \cup UNION {Adjacent(x) : x \in S} IN
         IF T = S THEN -1 ELSE HopsFrom(T, b, d + 1)

Hops(a, b) == HopsFrom({a}, b, 0)

\* C12: the path for from = to is [from]; if to is reachable over the
\* finder's adjacency the path starts with from, ends with to, repeats no
\* id, joins adjacent ids only, and no shorter such list exists.
C12_ShortestPath ==
    Returned =>
        IF fromId = toId THEN pathResult = <<fromId>>
        ELSE toId \in Reachable(fromId) =>
            /\ pathResult # <<>>
            /\ pathResult[1] = fromId
            /\ pathResult[Len(pathResult)] = toId
            /\ \A j, k \in 1..Len(pathResult) : pathResult[j] = pathResult[k] => j = k
            /\ \A k \in 1..(Len(pathResult) - 1) : pathResult[k + 1] \in Adjacent(pathResult[k])
            /\ Len(pathResult) = Hops(fromId, toId) + 1

\* a path over two intermediate persons
C12_Witness ==
    /\ Returned
    /\ Len(pathResult) = 4
    /\ Hops(fromId, toId) = 3

RECURSIVE TotalConnected(_)
TotalConnected(S) ==
    IF S = {} THEN 0
    ELSE LET x == CHOOSE y \in S : TRUE
         IN Len(getConnectedPeople(this, x)) + TotalConnected(S \ {x})

\* C13: the search takes each id from the queue for expansion at most once
\* and makes a bounded number of passes through its loop on every snapshot,
\* and it returns the empty list exactly when from # to and to is not
\* reachable over the finder's adjacency.
C13_PathTerminates ==
    /\ \A i \in Ids : visits[i] <= 1
    /\ visited \subseteq Ids
    /\ iterations + Len(queue) <= 1 + TotalConnected(visited)
    /\ iterations <= 1 + TotalConnected(Ids)
    /\ Returned => (pathResult = <<>> <=> (fromId # toId /\ toId \notin Reachable(fromId)))

\* the search gave up after expanding several persons of a snapshot whose
\* links lead back to fromId
C13_Witness ==
    /\ Returned
    /\ pathResult = <<>>
    /\ Cardinality(visited) >= 2
    /\ \E x \in visited \ {fromId} : fromId \in Adjacent(x)

ReversePath == findRelationshipPath(this, toId, fromId)

\* C14: the path from a to b is non-empty if and only if the path from b
\* to a is, and the two have the same length.
C14_PathSymmetry ==
    Returned =>
        /\ pathResult # <<>> <=> ReversePath # <<>>
        /\ Len(pathResult) = Len(ReversePath)

\* C15: whenever findRelationship(a, b) is not 'unknown' for a # b, the
\* path from a to b is non-empty.
C15_NamedImpliesPath ==
    (Returned /\ fromId # toId) =>
        (Kind(findRelationship(this, fromId, toId, FALSE)) # "unknown" => pathResult # <<>>)

\* a and b are children of the same existing unit, which lists both
SameParentUnit(a, b) ==
    /\ a \in DOMAIN individuals
    /\ b \in DOMAIN individuals
    /\ individuals[a].familyAsChild \in DOMAIN families
    /\ individuals[a].familyAsChild = individuals[b].familyAsChild
    /\ SeqHas(families[individuals[a].familyAsChild].children, a)
    /\ SeqHas(families[individuals[a].familyAsChild].children, b)

\* C16: two distinct persons who are not direct spouses and are both
\* listed as children of the unit both name as familyAsChild are 'sibling',
\* also when that unit has neither husband nor wife.
C16_SiblingRecognition ==
    (/\ Returned
     /\ fromId # toId
     /\ ~DirectSpouse(fromId, toId)
     /\ SameParentUnit(fromId, toId)) =>
        Kind(result) = "sibling"

\* the recorded parents of a: husband and wife of its familyAsChild unit
ParentsOf(a) ==
    IF a \in DOMAIN individuals /\ individuals[a].familyAsChild \in DOMAIN families
    THEN {families[individuals[a].familyAsChild].husband,
          families[individuals[a].familyAsChild].wife} \ {NoId}
    ELSE {}

\* a and b name the same existing unit as familyAsChild
SharedUnit(a, b) ==
    /\ a \in DOMAIN individuals
    /\ b \in DOMAIN individuals
    /\ individuals[a].familyAsChild \in DOMAIN families
    /\ individuals[a].familyAsChild = individuals[b].familyAsChild

\* C17: for a 'sibling' result, half is false only if both come from the
\* same unit and it has a husband and a wife; half is true if the shared
\* unit lacks one of them, or if they come from different units that share
\* exactly one parent.
C17_HalfSibling ==
    (Returned /\ Kind(result) = "sibling") =>
        /\ ~result.relationship.half =>
              SharedUnit(fromId, toId) /\ Cardinality(ParentsOf(fromId)) = 2
        /\ (SharedUnit(fromId, toId) /\ Cardinality(ParentsOf(fromId)) < 2) =>
              result.relationship.half
        /\ (/\ ~SharedUnit(fromId, toId)
            /\ Cardinality(ParentsOf(fromId) \cap ParentsOf(toId)) = 1) =>
              result.relationship.half

Sexes == {"M", "F", "U"}

\* the snapshot with the sex attributes replaced by those of sexes
Resexed(sexes) ==
    Calculator([p \in DOMAIN individuals |-> [individuals[p] EXCEPT !.sex = sexes[p]]],
               families)

\* C18: on every snapshot that differs from the present one in sex
\* attributes only, the query returns the same kind and parameters.
C18_SexOnlyLabels ==
    Returned =>
        \A sexes \in [DOMAIN individuals -> Sexes] :
            findRelationship(Resexed(sexes), fromId, toId, FALSE).relationship
                = result.relationship

\* a grandparent or grandchild whose label changes with the sex attributes
C18_Witness ==
    /\ Returned
    /\ Kind(result) \in {"parent", "child"}
    /\ result.relationship.generations = 2
    /\ \E sexes \in [DOMAIN individuals -> Sexes] :
          findRelationship(Resexed(sexes), fromId, toId, FALSE).label # result.label

\* the common ancestors of a and b with their depth pairs
CommonAncestors(a, b) ==
    LET fromAnc == findAncestorsWithDepth(this, a)
        toAnc == findAncestorsWithDepth(this, b)
    IN  {[ancestorId |-> x, fromDepth |-> MapGet(fromAnc, x), toDepth |-> MapGet(toAnc, x)] :
            x \in SharedAncestors(a, b)}

\* those of least fromDepth + toDepth
TiedNearest(a, b) ==
    {c \in CommonAncestors(a, b) :
        \A d \in CommonAncestors(a, b) : c.fromDepth + c.toDepth <= d.fromDepth + d.toDepth}

\* C19: every common ancestor of least total depth classifies the pair
\* with the same kind and parameters.
C19_TieIndependence ==
    (Returned /\ fromId # toId) =>
        \A c, d \in TiedNearest(fromId, toId) :
            calculateBloodRelationship(this, fromId, toId, c).relationship
                = calculateBloodRelationship(this, fromId, toId, d).relationship

\* the least number of parent hops from a member of S up to x, given d
\* hops so far; -1 if x is not reached
RECURSIVE HopsUp(_, _, _)
HopsUp(S, x, d) ==
    IF x \in S THEN d
    ELSE LET T == S \cup UNION {ParentsOf(y) : y \in S} IN
         IF T = S THEN -1 ELSE HopsUp(T, x, d + 1)

RECURSIVE AncestorsOf(_)
AncestorsOf(S) ==
    LET T == S \cup UNION {ParentsOf(y) : y \in S} IN
    IF T = S THEN S ELSE AncestorsOf(T)

\* m is the depth map of p: one entry per id reached from p over parent
\* links, p included, each with its least number of hops
IsDepthMap(m, p) ==
    /\ MapKeys(m) = AncestorsOf({p})
    /\ \A j, k \in 1..Len(m) : m[j].id = m[k].id => j = k
    /\ \A k \in 1..Len(m) : m[k].depth = HopsUp({p}, m[k].id, 0)

\* C20: the map findAncestorsWithDepth(p) returns has as keys exactly p
\* and the ids reached from p over familyAsChild -> husband / wife links,
\* each with its least number of parent hops.
C20_AncestorDepths ==
    /\ pc = "walkTo" => IsDepthMap(fromAncestors, fromId)
    /\ (pc = "returned" /\ ancestors # <<>>) =>
          IsDepthMap(fromAncestors, fromId) /\ IsDepthMap(ancestors, toId)

\* a parent of fromId who is also a parent of another parent of fromId, in
\* a snapshot where fromId is a parent of one of its ancestors
C20_Witness ==
    /\ pc = "walkTo"
    /\ \E x, y \in ParentsOf(fromId) : x # y /\ x \in ParentsOf(y)
    /\ \E x \in MapKeys(fromAncestors) : fromId \in ParentsOf(x)

\* the common ancestor findRelationship(fromId, toId) selects
Selected ==
    findNearestCommonAncestor(findAncestorsWithDepth(this, fromId),
                              findAncestorsWithDepth(this, toId))

TotalDepth(a, b, x) ==
    MapGet(findAncestorsWithDepth(this, a), x) + MapGet(findAncestorsWithDepth(this, b), x)

\* position of x in the map m
MapIndex(m, x) == CHOOSE k \in 1..Len(m) : m[k].id = x

\* C21: findNearestCommonAncestor gives null exactly when the two depth
\* maps share no id; otherwise an id of both maps of least fromDepth +
\* toDepth, with its depth in each map; the blood classification is made
\* from it.
C21_NearestCommonAncestor ==
    Returned =>
        LET fromAnc == findAncestorsWithDepth(this, fromId)
            toAnc == findAncestorsWithDepth(this, toId)
            shared == MapKeys(fromAnc) \cap MapKeys(toAnc)
            selected == findNearestCommonAncestor(fromAnc, toAnc)
        IN  /\ selected = Null <=> shared = {}
            /\ selected # Null =>
                  /\ selected.ancestorId \in shared
                  /\ selected.fromDepth = MapGet(fromAnc, selected.ancestorId)
                  /\ selected.toDepth = MapGet(toAnc, selected.ancestorId)
                  /\ \A x \in shared :
                        selected.fromDepth + selected.toDepth
                            <= MapGet(fromAnc, x) + MapGet(toAnc, x)
            /\ (selected # Null /\ fromId # toId /\ ~DirectSpouse(fromId, toId)) =>
                  result = calculateBloodRelationship(this, fromId, toId, selected)

\* the selected id comes after a shared id of greater total depth
C21_Witness ==
    /\ Returned
    /\ fromId # toId
    /\ Selected # Null
    /\ \E x \in SharedAncestors(fromId, toId) :
          /\ MapIndex(findAncestorsWithDepth(this, fromId), x)
                < MapIndex(findAncestorsWithDepth(this, fromId), Selected.ancestorId)
          /\ TotalDepth(fromId, toId, x) > Selected.fromDepth + Selected.toDepth

\* the query is classified from the selected common ancestor
ByCommonAncestor ==
    /\ Returned
    /\ fromId # toId
    /\ ~DirectSpouse(fromId, toId)
    /\ Selected # Null

\* C22: with (f, t) the depths of the selected common ancestor the
\* relationship is parent(f) for t = 0 < f, child(t) for f = 0 < t, sibling
\* for f = t = 1, uncle-aunt(f - 2) for f >= 2 and t = 1, nephew-niece(t - 2)
\* for f = 1 and t >= 2, cousin(min(f, t) - 1, |f - t|) for f, t >= 2; every
\* cousin result has degree >= 1 and every parent or child result has
\* generations >= 1.
C22_DepthPairClassification ==
    /\ ByCommonAncestor =>
          LET f == Selected.fromDepth
              t == Selected.toDepth
              rel == result.relationship
          IN  /\ (t = 0 /\ f > 0) =>
                    rel = [type |-> "parent", generations |-> f, lineage |-> "direct"]
              /\ (f = 0 /\ t > 0) =>
                    rel = [type |-> "child", generations |-> t, lineage |-> "direct"]
              /\ (f = 1 /\ t = 1) => rel.type = "sibling"
              /\ (f >= 2 /\ t = 1) => rel = [type |-> "uncle-aunt", great |-> f - 2]
              /\ (f = 1 /\ t >= 2) => rel = [type |-> "nephew-niece", great |-> t - 2]
              /\ (f >= 2 /\ t >= 2) =>
                    rel = [type |-> "cousin",
                           degree |-> (IF f <= t THEN f ELSE t) - 1,
                           removed |-> IF f <= t THEN t - f ELSE f - t]
    /\ (Returned /\ Kind(result) = "cousin") => result.relationship.degree >= 1
    /\ (Returned /\ Kind(result) \in {"parent", "child"}) => result.relationship.generations >= 1

\* cousins of unequal depth
C22_Witness ==
    /\ ByCommonAncestor
    /\ Selected.fromDepth = 2
    /\ Selected.toDepth = 3
    /\ Kind(result) = "cousin"

(* C23: the 'Distant Relative' sentinel is never returned: whenever a common
   ancestor was selected for two distinct ids that are not spouses the result
   has a kind other than 'unknown', and every result of kind 'unknown' carries
   the label 'Unknown Relation'. *)
C23_NoDistantRelative ==
    /\ Returned => result.label # "Distant Relative"
    /\ ByCommonAncestor => Kind(result) # "unknown"
    /\ (Returned /\ Kind(result) = "unknown") => result.label = "Unknown Relation"

C23_Witness ==
    /\ ByCommonAncestor
    /\ Selected.fromDepth = 3
    /\ Selected.toDepth = 1
    /\ Kind(result) = "uncle-aunt"

AncestorWord(n, id) ==
    IF n = 1 THEN Gendered(this, id, "Father", "Mother", "Parent")
    ELSE Repeat("Great-", n - 2) \o Gendered(this, id, "Grandfather", "Grandmother", "Grandparent")

DescendantWord(n, id) ==
    IF n = 1 THEN Gendered(this, id, "Son", "Daughter", "Child")
    ELSE Repeat("Great-", n - 2) \o Gendered(this, id, "Grandson", "Granddaughter", "Grandchild")

(* C24: a result of kind 'parent' with generations n is labelled
   Father/Mother/Parent for n = 1 and otherwise n - 2 times 'Great-' followed
   by Grandfather/Grandmother/Grandparent; a result of kind 'child' likewise
   with Son/Daughter/Child and Grandson/Granddaughter/Grandchild; the word is
   chosen by the sex of toId, neutral when toId is not in the graph. *)
C24_LineageLabels ==
    /\ (Returned /\ Kind(result) = "parent")
         => result.label = AncestorWord(result.relationship.generations, toId)
    /\ (Returned /\ Kind(result) = "child")
         => result.label = DescendantWord(result.relationship.generations, toId)

-----------------------------------------------------------------------------
(* getRelationshipWithChain, taken as one step, on graphs with marriages   *)
(* and on graphs with one reference off.                                    *)

InitChain == Init \/ InitDefect

GetRelationshipWithChain ==
    /\ pc = "idle"
    /\ \E a \in Ids, b \in Ids :
          /\ fromId' = a
          /\ toId' = b
          /\ chainLabel' = getRelationshipWithChain(this, a, b)
    /\ pc' = "returned"
    /\ UNCHANGED <<individuals, families, result, queue, ancestors, fromAncestors,
                   visits, iterations, callVars, pathVars, mutationVars>>

NextChain == GetRelationshipWithChain

SpecChain == InitChain /\ [][NextChain]_vars

\* every person a unit names exists, and every existing unit among a person's
\* familyAsSpouse names that person as husband or wife
WellFormedRefs ==
    /\ \A f \in DOMAIN families :
          /\ families[f].husband \in DOMAIN individuals \cup {NoId}
          /\ families[f].wife \in DOMAIN individuals \cup {NoId}
          /\ \A k \in DOMAIN families[f].children :
                families[f].children[k] \in DOMAIN individuals
    /\ \A p \in DOMAIN individuals :
          \A k \in DOMAIN individuals[p].familyAsSpouse :
              LET f == individuals[p].familyAsSpouse[k] IN
              f \in DOMAIN families => p \in {families[f].husband, families[f].wife}

HopLabels(path) == [i \in 1..(Len(path) - 1) |-> getStepRelation(this, path[i], path[i + 1])]

RECURSIVE Possessive(_)
Possessive(labels) ==
    IF Len(labels) = 1 THEN labels[1]
    ELSE labels[1] \o "'s " \o Possessive(Tail(labels))

(* C25: getRelationshipWithChain returns findRelationship's label when its
   kind is not 'unknown'; otherwise the labels of the hops of the path
   findRelationshipPath returns, unrecognised hops dropped, joined with "'s",
   or 'Unknown Relation' when the path is empty or no hop is recognised. In a
   graph whose units name existing persons only and whose spouse units name
   their holder, no hop is dropped. *)
C25_Chain ==
    pc = "returned" =>
        LET found == findRelationship(this, fromId, toId, FALSE)
            path == findRelationshipPath(this, fromId, toId)
            kept == SelectSeq(HopLabels(path), LAMBDA l : l # "")
        IN  IF found.relationship.type # "unknown" THEN chainLabel = found.label
            ELSE /\ chainLabel = IF kept = <<>> THEN "Unknown Relation" ELSE Possessive(kept)
                 /\ (WellFormedRefs /\ path # <<>>) => Len(kept) = Len(path) - 1

\* a chain of two hops
C25_Witness ==
    /\ pc = "returned"
    /\ findRelationship(this, fromId, toId, FALSE).relationship.type = "unknown"
    /\ WellFormedRefs
    /\ Len(findRelationshipPath(this, fromId, toId)) = 3
    /\ chainLabel = "Father's Wife"

-----------------------------------------------------------------------------
(* linkRelationship and unlinkRelationship (FamilyTreeContext).  The       *)
(* records a call builds are computed from `data`, the snapshot its        *)
(* closure holds; setData applies them to the state of that moment.        *)
(* A built record is Null or [id, value].                                  *)

Keyed(id, value) == [isNull |-> FALSE, id |-> id, value |-> value]

\* { ...map, [k]: v }
SetKey(map, k, v) == [x \in DOMAIN map \cup {k} |-> IF x = k THEN v ELSE map[x]]

RelationTypes == {"spouse", "parent", "child", "sibling"}

Built(newFamily, updatedExistingFamily, updatedPerson, updatedRelatedPerson) ==
    [throws |-> FALSE, newFamily |-> newFamily, updatedExistingFamily |-> updatedExistingFamily,
     updatedPerson |-> updatedPerson, updatedRelatedPerson |-> updatedRelatedPerson]

\* reading `.children` of a unit that is not there: a TypeError before setData
Thrown == [throws |-> TRUE]

\* case 'spouse' (lines 431-454)
linkSpouse(data, personId, relatedPersonId, newFamilyId) ==
    LET person == data.individuals[personId]
        relatedPerson == data.individuals[relatedPersonId]
        husband == IF person.sex = "M" THEN personId ELSE relatedPersonId
        wife == IF person.sex = "F" THEN personId ELSE relatedPersonId
    IN  Built(Keyed(newFamilyId, [husband |-> husband, wife |-> wife, children |-> <<>>]),
              Null,
              Keyed(personId, [person EXCEPT !.familyAsSpouse = Append(@, newFamilyId)]),
              Keyed(relatedPersonId,
                    [relatedPerson EXCEPT !.familyAsSpouse = Append(@, newFamilyId)]))

\* cases 'parent' (lines 456-487) and 'child' (lines 489-522): the unit is the
\* parent's first spouse unit, or a new unit with the parent alone. Returns
\* [throws, newFamily, updatedExistingFamily, parent, child].
linkParentChild(data, parentId, childId, newFamilyId) ==
    LET parent == data.individuals[parentId]
        child == data.individuals[childId]
        hasUnit == parent.familyAsSpouse # <<>>
        familyId == IF hasUnit THEN parent.familyAsSpouse[1] ELSE newFamilyId
        isHusband == parent.sex = "M"
    IN  IF hasUnit /\ ~HasFamily(data, familyId) THEN Thrown
        ELSE [throws |-> FALSE,
              newFamily |-> IF hasUnit THEN Null
                            ELSE Keyed(familyId,
                                       [husband |-> IF isHusband THEN parentId ELSE NoId,
                                        wife |-> IF isHusband THEN NoId ELSE parentId,
                                        children |-> <<childId>>]),
              updatedExistingFamily |->
                  IF hasUnit
                  THEN Keyed(familyId, [data.families[familyId]
                                            EXCEPT !.children = Append(@, childId)])
                  ELSE Null,
              parent |-> IF hasUnit THEN Null
                         ELSE Keyed(parentId,
                                    [parent EXCEPT !.familyAsSpouse = Append(@, familyId)]),
              child |-> Keyed(childId, [child EXCEPT !.familyAsChild = familyId])]

\* case 'sibling' (lines 524-562)
linkSibling(data, personId, relatedPersonId, newFamilyId) ==
    LET person == data.individuals[personId]
        relatedPerson == data.individuals[relatedPersonId]
        personParentFamily == person.familyAsChild
        relatedParentFamily == relatedPerson.familyAsChild
    IN  IF personParentFamily # NoId /\ relatedParentFamily = NoId
        THEN IF ~HasFamily(data, personParentFamily) THEN Thrown
             ELSE Built(Null,
                        Keyed(personParentFamily,
                              [data.families[personParentFamily]
                                   EXCEPT !.children = Append(@, relatedPersonId)]),
                        Null,
                        Keyed(relatedPersonId,
                              [relatedPerson EXCEPT !.familyAsChild = personParentFamily]))
        ELSE IF personParentFamily = NoId /\ relatedParentFamily # NoId
        THEN IF ~HasFamily(data, relatedParentFamily) THEN Thrown
             ELSE Built(Null,
                        Keyed(relatedParentFamily,
                              [data.families[relatedParentFamily]
                                   EXCEPT !.children = Append(@, personId)]),
                        Keyed(personId, [person EXCEPT !.familyAsChild = relatedParentFamily]),
                        Null)
        ELSE IF personParentFamily = NoId /\ relatedParentFamily = NoId
        THEN Built(Keyed(newFamilyId, [husband |-> NoId, wife |-> NoId,
                                       children |-> <<personId, relatedPersonId>>]),
                   Null,
                   Keyed(personId, [person EXCEPT !.familyAsChild = newFamilyId]),
                   Keyed(relatedPersonId, [relatedPerson EXCEPT !.familyAsChild = newFamilyId]))
        ELSE Built(Null, Null, Null, Null)

\* the switch of linkRelationship (lines 430-564); newFamilyId is what
\* generateFamilyId gives when the case calls it
linkRecords(data, personId, relatedPersonId, relationType, newFamilyId) ==
    IF relationType = "spouse" THEN linkSpouse(data, personId, relatedPersonId, newFamilyId)
    ELSE IF relationType = "parent"
    THEN LET r == linkParentChild(data, relatedPersonId, personId, newFamilyId) IN
         IF r.throws THEN Thrown
         ELSE Built(r.newFamily, r.updatedExistingFamily, r.child, r.parent)
    ELSE IF relationType = "child"
    THEN LET r == linkParentChild(data, personId, relatedPersonId, newFamilyId) IN
         IF r.throws THEN Thrown
         ELSE Built(r.newFamily, r.updatedExistingFamily, r.parent, r.child)
    ELSE linkSibling(data, personId, relatedPersonId, newFamilyId)

\* setData(prev => ...) of linkRelationship (lines 567-589) and of
\* unlinkRelationship (lines 716-732), where newFamily is Null
applyRecords(prev, r) ==
    LET withNew == IF r.newFamily.isNull THEN prev.families
                   ELSE SetKey(prev.families, r.newFamily.id, r.newFamily.value)
        fams == IF r.updatedExistingFamily.isNull THEN withNew
                ELSE SetKey(withNew, r.updatedExistingFamily.id, r.updatedExistingFamily.value)
        withPerson == IF r.updatedPerson.isNull THEN prev.individuals
                      ELSE SetKey(prev.individuals, r.updatedPerson.id, r.updatedPerson.value)
        inds == IF r.updatedRelatedPerson.isNull THEN withPerson
                ELSE SetKey(withPerson, r.updatedRelatedPerson.id, r.updatedRelatedPerson.value)
    IN  [individuals |-> inds, families |-> fams]

\* case 'spouse' of unlinkRelationship (lines 630-654): the first unit of
\* person.familyAsSpouse that names the two as husband and wife
RECURSIVE unlinkSpouse(_, _, _, _)
unlinkSpouse(data, personId, relatedPersonId, i) ==
    LET person == data.individuals[personId]
        relatedPerson == data.individuals[relatedPersonId]
    IN
    IF i > Len(person.familyAsSpouse) THEN Built(Null, Null, Null, Null)
    ELSE LET familyId == person.familyAsSpouse[i] IN
         IF /\ HasFamily(data, familyId)
            /\ \/ /\ data.families[familyId].husband = personId
                  /\ data.families[familyId].wife = relatedPersonId
               \/ /\ data.families[familyId].wife = personId
                  /\ data.families[familyId].husband = relatedPersonId
         THEN Built(Null, Null,
                    Keyed(personId,
                          [person EXCEPT !.familyAsSpouse = SeqWithout(@, familyId)]),
                    Keyed(relatedPersonId,
                          [relatedPerson EXCEPT !.familyAsSpouse = SeqWithout(@, familyId)]))
         ELSE unlinkSpouse(data, personId, relatedPersonId, i + 1)

\* case 'parent' (lines 658-674)
unlinkParent(data, personId, relatedPersonId) ==
    LET person == data.individuals[personId]
        fid == person.familyAsChild
    IN  IF /\ fid # NoId
           /\ HasFamily(data, fid)
           /\ (data.families[fid].husband = relatedPersonId
                  \/ data.families[fid].wife = relatedPersonId)
        THEN Built(Null,
                   Keyed(fid, [data.families[fid] EXCEPT !.children = SeqWithout(@, personId)]),
                   Keyed(personId, [person EXCEPT !.familyAsChild = NoId]),
                   Null)
        ELSE Built(Null, Null, Null, Null)

\* case 'child' (lines 676-693): the first unit of person.familyAsSpouse that
\* lists relatedPersonId
RECURSIVE unlinkChild(_, _, _, _)
unlinkChild(data, personId, relatedPersonId, i) ==
    LET person == data.individuals[personId]
        relatedPerson == data.individuals[relatedPersonId]
    IN
    IF i > Len(person.familyAsSpouse) THEN Built(Null, Null, Null, Null)
    ELSE LET familyId == person.familyAsSpouse[i] IN
         IF HasFamily(data, familyId) /\ SeqHas(data.families[familyId].children, relatedPersonId)
         THEN Built(Null,
                    Keyed(familyId, [data.families[familyId]
                                         EXCEPT !.children = SeqWithout(@, relatedPersonId)]),
                    Null,
                    Keyed(relatedPersonId, [relatedPerson EXCEPT !.familyAsChild = NoId]))
         ELSE unlinkChild(data, personId, relatedPersonId, i + 1)

\* case 'sibling' (lines 695-712)
unlinkSibling(data, personId, relatedPersonId) ==
    LET person == data.individuals[personId]
        relatedPerson == data.individuals[relatedPersonId]
        fid == person.familyAsChild
    IN  IF fid # NoId /\ fid = relatedPerson.familyAsChild /\ HasFamily(data, fid)
        THEN Built(Null,
                   Keyed(fid, [data.families[fid]
                                   EXCEPT !.children = SeqWithout(@, relatedPersonId)]),
                   Null,
                   Keyed(relatedPersonId, [relatedPerson EXCEPT !.familyAsChild = NoId]))
        ELSE Built(Null, Null, Null, Null)

\* the switch of unlinkRelationship (lines 628-713); updatedFamily is held in
\* the updatedExistingFamily field
unlinkRecords(data, personId, relatedPersonId, relationType) ==
    IF relationType = "spouse" THEN unlinkSpouse(data, personId, relatedPersonId, 1)
    ELSE IF relationType = "parent" THEN unlinkParent(data, personId, relatedPersonId)
    ELSE IF relationType = "child" THEN unlinkChild(data, personId, relatedPersonId, 1)
    ELSE unlinkSibling(data, personId, relatedPersonId)

-----------------------------------------------------------------------------
(* The mutations as steps of the provider.  A call reads `rendered`; a     *)
(* render hands the current state to the callbacks of the next call.       *)

MaxCalls == 2

LinkPersons == 3

MaxLinkMarriages == 1

\* what the queries use, untouched by the mutations
queryVars == <<pc, fromId, toId, result, queue, ancestors, fromAncestors, visits,
               iterations, callVars, pathVars, chainLabel>>

Data == [individuals |-> individuals, families |-> families]

Fresh == rendered = Data

CallEntry(op, personId, relatedPersonId, relationType, r) ==
    [op |-> op, person |-> personId, related |-> relatedPersonId, type |-> relationType,
     fresh |-> Fresh, before |-> Data, records |-> r]

Saves(r) ==
    Cardinality({k \in {"newFamily", "updatedExistingFamily", "updatedPerson",
                        "updatedRelatedPerson"} : ~r[k].isNull})

\* the save block of linkRelationship (lines 591-614) and of
\* unlinkRelationship (lines 734-754) up to its first await; with nothing to
\* save the block runs through to its finally.  The values the save calls
\* return are not looked at.
BeginUncheckedSave(op, saves) ==
    IF ~isSupabaseEnabled THEN UNCHANGED <<isSaving, saveError, inflight, done>>
    ELSE /\ saveError' = Null
         /\ IF saves = 0
            THEN /\ isSaving' = FALSE
                 /\ done' = Append(done, [op |-> op, failed |-> FALSE])
                 /\ UNCHANGED inflight
            ELSE /\ isSaving' = TRUE
                 /\ inflight' = Append(inflight, [op |-> op, checked |-> FALSE,
                                                  left |-> saves, failed |-> FALSE])
                 /\ UNCHANGED done

Mutate(op, r, personId, relatedPersonId, relationType) ==
    /\ individuals' = applyRecords(Data, r).individuals
    /\ families' = applyRecords(Data, r).families
    /\ log' = Append(log, CallEntry(op, personId, relatedPersonId, relationType, r))
    /\ BeginUncheckedSave(op, Saves(r))

LinkRelationship ==
    /\ Len(log) < MaxCalls
    /\ \E personId \in Ids, relatedPersonId \in Ids, relationType \in RelationTypes,
          now \in {clock, clock + 1} :
          IF ~HasIndividual(rendered, personId) \/ ~HasIndividual(rendered, relatedPersonId)
          THEN UNCHANGED vars
          ELSE LET r == linkRecords(rendered, personId, relatedPersonId, relationType, now) IN
               IF r.throws THEN UNCHANGED vars
               ELSE /\ Mutate("link", r, personId, relatedPersonId, relationType)
                    /\ clock' = IF r.newFamily.isNull THEN clock ELSE now
                    /\ UNCHANGED <<queryVars, rendered, isSupabaseEnabled>>

UnlinkRelationship ==
    /\ Len(log) < MaxCalls
    /\ \E personId \in Ids, relatedPersonId \in Ids, relationType \in RelationTypes :
          IF ~HasIndividual(rendered, personId) \/ ~HasIndividual(rendered, relatedPersonId)
          THEN UNCHANGED vars
          ELSE LET r == unlinkRecords(rendered, personId, relatedPersonId, relationType) IN
               /\ Mutate("unlink", r, personId, relatedPersonId, relationType)
               /\ UNCHANGED <<queryVars, rendered, clock, isSupabaseEnabled>>

Render ==
    /\ ~Fresh
    /\ rendered' = Data
    /\ UNCHANGED <<queryVars, individuals, families, clock, log, isSupabaseEnabled,
                   isSaving, saveError, inflight, done>>

\* graphs whose references agree, local mode (no persistence)
InitLink ==
    /\ \E par \in ParentTables("tree", LinkPersons),
          mar \in SubsetsUpTo(PairsAmong(1..LinkPersons), MaxLinkMarriages) :
          /\ individuals = BuildIndividuals(LinkPersons, par, mar)
          /\ families = BuildFamilies(LinkPersons, par, mar)
    /\ Idle

\* every call is made after the previous update was rendered
NextLink ==
    \/ Render
    \/ Fresh /\ LinkRelationship
    \/ Fresh /\ UnlinkRelationship

SpecLink == InitLink /\ [][NextLink]_vars

LastCall == log[Len(log)]

(* C26: after linkRelationship(p, q, 'spouse') on distinct existing persons,
   findRelationship(p, q) and findRelationship(q, p) on the new snapshot both
   have kind 'spouse', whatever the sexes of p and q. *)
C26_LinkedSpouses ==
    (/\ log # <<>>
     /\ LastCall.op = "link"
     /\ LastCall.type = "spouse"
     /\ LastCall.person # LastCall.related)
        => /\ Kind(findRelationship(this, LastCall.person, LastCall.related, FALSE)) = "spouse"
           /\ Kind(findRelationship(this, LastCall.related, LastCall.person, FALSE)) = "spouse"

(* C27: in every state the mutations reach from a graph whose references
   agree, a person is listed among the children of a unit exactly if the
   person's familyAsChild is that unit. *)
C27_ChildReferencesAgree ==
    \A p \in DOMAIN individuals, f \in DOMAIN families :
        SeqHas(families[f].children, p) <=> individuals[p].familyAsChild = f

RoundTrip ==
    /\ Len(log) = 2
    /\ log[1].op = "link"
    /\ log[2].op = "unlink"
    /\ log[1].type = "spouse"
    /\ log[2].type = "spouse"
    /\ log[1].person = log[2].person
    /\ log[1].related = log[2].related
    /\ log[1].person # log[1].related

(* C28: linkRelationship(p, q, 'spouse') followed, once rendered, by
   unlinkRelationship(p, q, 'spouse') gives p and q the familyAsSpouse lists
   they had before, and findRelationship the results it had before, for
   every pair. *)
C28_SpouseRoundTrip ==
    RoundTrip =>
        LET before == log[1].before
            p == log[1].person
            q == log[1].related
        IN  /\ individuals[p].familyAsSpouse = before.individuals[p].familyAsSpouse
            /\ individuals[q].familyAsSpouse = before.individuals[q].familyAsSpouse
            /\ \A a \in Ids, b \in Ids :
                  findRelationship(this, a, b, FALSE) = findRelationship(before, a, b, FALSE)

-----------------------------------------------------------------------------
(* Calls made without waiting for a render: the second call of an event    *)
(* handler, or of a caller that awaits the first, still holds the          *)
(* callback of the last render and with it that render's snapshot.         *)

NextRace ==
    \/ Render
    \/ LinkRelationship

SpecRace == InitLink /\ [][NextRace]_vars

\* two links, the second issued against the snapshot the first one read
SameSnapshot ==
    /\ Len(log) = 2
    /\ log[1].op = "link"
    /\ log[2].op = "link"
    /\ log[1].fresh
    /\ ~log[2].fresh
    /\ log[1].person # log[1].related
    /\ log[2].person # log[2].related
    /\ {log[1].person, log[1].related} \cap {log[2].person, log[2].related} # {}

\* the record sets a familyAsChild the snapshot did not have
SetsChildRef(r) ==
    /\ ~r.isNull
    /\ r.value.familyAsChild # log[1].before.individuals[r.id].familyAsChild

\* the references a built person record holds are in the state, the
\* familyAsChild it sets unless the other call sets one for that person too
PersonReflected(other, r) ==
    ~r.isNull =>
        /\ \A k \in DOMAIN r.value.familyAsSpouse :
              SeqHas(individuals[r.id].familyAsSpouse, r.value.familyAsSpouse[k])
        /\ (/\ SetsChildRef(r)
            /\ ~(SetsChildRef(other.records.updatedPerson)
                    /\ other.records.updatedPerson.id = r.id)
            /\ ~(SetsChildRef(other.records.updatedRelatedPerson)
                    /\ other.records.updatedRelatedPerson.id = r.id))
               => individuals[r.id].familyAsChild = r.value.familyAsChild

UnitReflected(r) ==
    ~r.isNull =>
        /\ r.id \in DOMAIN families
        /\ \A k \in DOMAIN r.value.children : SeqHas(families[r.id].children, r.value.children[k])

Reflected(entry, other) ==
    /\ UnitReflected(entry.records.newFamily)
    /\ UnitReflected(entry.records.updatedExistingFamily)
    /\ PersonReflected(other, entry.records.updatedPerson)
    /\ PersonReflected(other, entry.records.updatedRelatedPerson)

(* C29: when two linkRelationship calls that share a person are made
   against the same snapshot, the state after both holds the references
   both calls added, and the units the two calls created have distinct
   ids. *)
C29_NoLostUpdate ==
    SameSnapshot =>
        /\ Reflected(log[1], log[2])
        /\ Reflected(log[2], log[1])
        /\ (~log[1].records.newFamily.isNull /\ ~log[2].records.newFamily.isNull)
              => log[1].records.newFamily.id # log[2].records.newFamily.id

-----------------------------------------------------------------------------
(* updateIndividual, addIndividual, updateFamily, addFamily and the         *)
(* persistence calls.  saveIndividual and saveFamily catch whatever goes    *)
(* wrong and return { error }; they never throw.  An entry of inflight is   *)
(* a mutation standing at an await, with the number of save calls it still  *)
(* has to make; `failed` records whether one of them returned an error.     *)

SavePersons == 2

NoRecords == Built(Null, Null, Null, Null)

\* { ...record, ...updates }
Merged(record, updates) ==
    [k \in DOMAIN record |-> IF k \in DOMAIN updates THEN updates[k] ELSE record[k]]

ErrorMessage == [isNull |-> FALSE, message |-> "error.message"]

\* setIsSaving(true); setSaveError(null); const { error } = await save...(...)
\* (lines 325-328, 351-354, 375-378, 401-404)
BeginCheckedSave(op) ==
    IF ~isSupabaseEnabled THEN UNCHANGED <<isSaving, saveError, inflight, done>>
    ELSE /\ isSaving' = TRUE
         /\ saveError' = Null
         /\ inflight' = Append(inflight, [op |-> op, checked |-> TRUE,
                                          left |-> 1, failed |-> FALSE])
         /\ UNCHANGED done

\* the person exists in the snapshot; updates sets the sex
UpdateIndividual ==
    /\ Len(log) < MaxCalls
    /\ \E id \in DOMAIN rendered.individuals, sex \in Sexes :
          LET updatedIndividual == Merged(rendered.individuals[id], [sex |-> sex]) IN
          /\ individuals' = SetKey(individuals, id, updatedIndividual)
          /\ log' = Append(log, CallEntry("updateIndividual", id, NoId, "", NoRecords))
    /\ BeginCheckedSave("updateIndividual")
    /\ UNCHANGED <<queryVars, families, rendered, clock, isSupabaseEnabled>>

\* a new person without references, under an id not in use
AddIndividual ==
    /\ Len(log) < MaxCalls
    /\ \E sex \in Sexes :
          LET id == Cardinality(DOMAIN individuals) + 1
              individual == [sex |-> sex, familyAsSpouse |-> <<>>, familyAsChild |-> NoId]
          IN  /\ individuals' = SetKey(individuals, id, individual)
              /\ log' = Append(log, CallEntry("addIndividual", id, NoId, "", NoRecords))
    /\ BeginCheckedSave("addIndividual")
    /\ UNCHANGED <<queryVars, families, rendered, clock, isSupabaseEnabled>>

\* the unit exists in the snapshot; updates empties the wife slot
UpdateFamily ==
    /\ Len(log) < MaxCalls
    /\ \E id \in DOMAIN rendered.families :
          LET updatedFamily == Merged(rendered.families[id], [wife |-> NoId]) IN
          /\ families' = SetKey(families, id, updatedFamily)
          /\ log' = Append(log, CallEntry("updateFamily", id, NoId, "", NoRecords))
    /\ BeginCheckedSave("updateFamily")
    /\ UNCHANGED <<queryVars, individuals, rendered, clock, isSupabaseEnabled>>

\* a new empty unit under an id not in use
AddFamily ==
    /\ Len(log) < MaxCalls
    /\ LET id == clock + 1
           family == [husband |-> NoId, wife |-> NoId, children |-> <<>>]
       IN  /\ families' = SetKey(families, id, family)
           /\ clock' = id
           /\ log' = Append(log, CallEntry("addFamily", id, NoId, "", NoRecords))
    /\ BeginCheckedSave("addFamily")
    /\ UNCHANGED <<queryVars, individuals, rendered, isSupabaseEnabled>>

\* An awaited save call of some mutation returns, with an error or without.
\* After its only call a checked mutation runs setIsSaving(false) and, on an
\* error, setSaveError(error.message) (lines 329-332); linkRelationship and
\* unlinkRelationship go on to their next call and after the last one run
\* their finally (lines 611-613, 751-753): the catch is never entered.
SaveReturns ==
    \E i \in DOMAIN inflight, error \in BOOLEAN :
        LET call == inflight[i]
            failed == call.failed \/ error
            others == SubSeq(inflight, 1, i - 1) \o SubSeq(inflight, i + 1, Len(inflight))
        IN  /\ IF call.left > 1
               THEN /\ inflight' = [inflight EXCEPT ![i].left = @ - 1, ![i].failed = failed]
                    /\ UNCHANGED <<isSaving, saveError, done>>
               ELSE /\ inflight' = others
                    /\ done' = Append(done, [op |-> call.op, failed |-> failed])
                    /\ isSaving' = FALSE
                    /\ saveError' = IF call.checked /\ error THEN ErrorMessage ELSE saveError
            /\ UNCHANGED <<queryVars, individuals, families, rendered, clock, log,
                           isSupabaseEnabled>>

\* graphs whose references agree, with persistence configured
InitSave ==
    /\ \E par \in ParentTables("tree", SavePersons) :
          /\ individuals = BuildIndividuals(SavePersons, par, {})
          /\ families = BuildFamilies(SavePersons, par, {})
    /\ Quiet
    /\ isSupabaseEnabled = TRUE

NextSave ==
    \/ Render
    \/ LinkRelationship
    \/ UnlinkRelationship
    \/ UpdateIndividual
    \/ AddIndividual
    \/ UpdateFamily
    \/ AddFamily
    \/ SaveReturns

SpecSave == InitSave /\ [][NextSave]_vars

\* a mutation completes in this step, one of its save calls having failed
CompletesFailed ==
    /\ Len(done') = Len(done) + 1
    /\ done'[Len(done')].failed

(* C30: when a save call of a mutation returned an error, then on
   completion of the mutation saveError is not null and isSaving is false,
   and the optimistic update stays. *)
C30_SaveFailureReported ==
    [][CompletesFailed =>
          /\ ~saveError'.isNull
          /\ ~isSaving'
          /\ individuals' = individuals
          /\ families' = families]_vars

=============================================================================
